---- MODULE Spec2Model ----
(***************************************************************************)
(* Model of the wireless sensor data logger (wireless_sensor.py):          *)
(* the byte-level frame decoder PacketProcessor and the packet parser      *)
(* SensorDataParser.                                                       *)
(***************************************************************************)
EXTENDS Integers, Sequences, FiniteSets, TLC

(***************************************************************************)
(* Program constants (class PacketProcessor).                              *)
(***************************************************************************)
PACKET_LENGTH == 18
ESCAPE_BYTE == 8
FRAME_END == 10
FRAME_START == 13

(***************************************************************************)
(* Bounds of the model.                                                    *)
(***************************************************************************)
\* the environment stops feeding data bytes once the buffer holds MaxBuf
MaxBuf == 19
\* at most MaxLiteral control-valued bytes (0x08, 0x0A, 0x0D) are fed as
\* escaped data into one buffer
MaxLiteral == 1

\* the control codes of the protocol
ControlBytes == {ESCAPE_BYTE, FRAME_END, FRAME_START}
\* the byte values other than the control codes that the environment feeds
PlainBytes == {65}
\* the bytes the environment feeds
InputBytes == ControlBytes \cup PlainBytes
\* inputs that are not exactly one byte
InvalidInputs == {<<>>, <<65, 66>>, <<FRAME_START, FRAME_END>>,
                  <<ESCAPE_BYTE, 65>>, <<FRAME_END, 65>>}

\* Optional[List[int]]
None == [some |-> FALSE, val |-> <<>>]
Some(p) == [some |-> TRUE, val |-> p]

VARIABLES
    packet,      \* PacketProcessor.packet
    escape,      \* PacketProcessor.escape
    op,          \* the last operation called
    data,        \* the argument of the last process_byte call
    result,      \* the value the last process_byte call returned
    pre,         \* the decoder's fields before the last operation
    frameState,  \* where the consumed byte stream stands relative to the frame markers
    lexEsc,      \* whether the last consumed byte is an unescaped escape byte
    shadow,      \* a decoder constructed at the last reset() and fed the same inputs since
    junk,        \* the wire: the bytes sent before the frame
    payload,     \* the wire: the 18 data bytes of the frame
    pos,         \* the wire: how many bytes of the wire were consumed
    parseInput,  \* the argument of the last parse_packet call
    parseResult, \* what the last parse_packet call returned or raised
    table,       \* which list RTDTemperatureTable.rtd_values holds
    lookupInput, \* the argument of the last get_temperature_from_resistance call
    lookupResult, \* what the last get_temperature_from_resistance call returned or raised
    reading,     \* the SensorData object is_valid is called on
    validResult, \* what the is_valid call returned
    fields,      \* the field values the packet to parse was written from
    seen,        \* the parse_packet calls made: argument, result, decoder state
    calls,       \* the number of calls made
    ser,         \* SerialPortManager.ser: 0 for None, else the number of the handle
    is_open,     \* SerialPortManager.is_open
    handles,     \* the serial.Serial objects constructed so far: "open" or "closed"
    portOp,      \* the last SerialPortManager operation called, with its argument
    portPre,     \* the manager's fields and the handles before that operation
    portResult,  \* what that operation returned
    is_reading,  \* SensorGUI.is_reading
    after,       \* the number of _read_data callbacks that root.after holds
    btn_refresh, \* the state of the Refresh button
    btn_open,    \* the state of the Open button
    btn_close,   \* the state of the Close button
    status_label, \* the text of the status label
    combo,       \* the text the port box shows
    display,     \* what the value labels show
    line,        \* the bytes the device sends
    event,       \* the last handler the event loop ran, and what it did
    shownAt,     \* how many bytes were consumed when the labels were last set
    stale,       \* how many buffered bytes were read before the last _close_port
    held         \* the packet process_byte last returned to the read loop

vars == <<packet, escape, op, data, result, pre, frameState, lexEsc, shadow,
          junk, payload, pos, parseInput, parseResult,
          table, lookupInput, lookupResult, reading, validResult, fields,
          seen, calls, ser, is_open, handles, portOp, portPre, portResult,
          is_reading, after, btn_refresh, btn_open, btn_close, status_label,
          combo, display, line, event, shownAt, stale, held>>
decoderVars == <<packet, escape, data, result, pre, frameState, lexEsc, shadow>>
wireVars == <<junk, payload, pos>>
parseVars == <<parseInput, parseResult>>
lookupVars == <<table, lookupInput, lookupResult>>
validVars == <<reading, validResult>>
fieldVars == <<fields>>
callVars == <<seen, calls>>
portVars == <<ser, is_open, handles, portOp, portPre, portResult>>
\* the variables of the host application: the port manager and the window
buttonVars == <<btn_refresh, btn_open, btn_close>>
guiVars == <<is_reading, after, buttonVars, status_label, combo, display, line,
             event, shownAt, stale, held>>
hostVars == <<portVars, guiVars>>
\* the variables that no call on the decoder touches
otherVars == <<lookupVars, validVars, fieldVars, callVars, hostVars>>

(***************************************************************************)
(* PacketProcessor                                                         *)
(***************************************************************************)
\* PacketProcessor.__init__
PacketProcessor_init == [packet |-> <<>>, escape |-> FALSE]

\* process_byte, the guard of the early return: not data or len(data) != 1
first_byte_only(d) == Len(d) = 0
invalid_data(d) == Len(d) = 0 \/ Len(d) # 1

\* process_byte, not escaped, data == ESCAPE_BYTE
escape_byte_appended(self) ==
    [packet |-> Append(self.packet, ESCAPE_BYTE), escape |-> TRUE, ret |-> None]
on_escape_byte(self) ==
    [packet |-> self.packet, escape |-> TRUE, ret |-> None]

\* process_byte, not escaped, data == FRAME_START
frame_start_keeps_buffer(self) ==
    [packet |-> self.packet, escape |-> self.escape, ret |-> None]
on_frame_start(self) ==
    [packet |-> <<>>, escape |-> self.escape, ret |-> None]

\* process_byte, not escaped, data == FRAME_END
frame_end_at_least(self) ==
    IF Len(self.packet) >= PACKET_LENGTH
    THEN [packet |-> <<>>, escape |-> self.escape, ret |-> Some(self.packet)]
    ELSE [packet |-> <<>>, escape |-> self.escape, ret |-> None]
frame_end_keeps_short(self) ==
    IF Len(self.packet) = PACKET_LENGTH
    THEN [packet |-> <<>>, escape |-> self.escape, ret |-> Some(self.packet)]
    ELSE [packet |-> self.packet, escape |-> self.escape, ret |-> None]
on_frame_end(self) ==
    IF Len(self.packet) = PACKET_LENGTH
    THEN [packet |-> <<>>, escape |-> self.escape, ret |-> Some(self.packet)]
    ELSE [packet |-> <<>>, escape |-> self.escape, ret |-> None]

\* process_byte, not escaped, any other byte
data_byte_capped(self, byte_val) ==
    IF Len(self.packet) >= PACKET_LENGTH
    THEN [packet |-> <<>>, escape |-> self.escape, ret |-> None]
    ELSE [packet |-> Append(self.packet, byte_val), escape |-> self.escape,
          ret |-> None]
on_data_byte(self, byte_val) ==
    [packet |-> Append(self.packet, byte_val), escape |-> self.escape,
     ret |-> None]

\* process_byte, escaped
escaped_marker_obeyed(self, byte_val) ==
    IF byte_val = FRAME_START
    THEN [packet |-> <<>>, escape |-> FALSE, ret |-> None]
    ELSE [packet |-> Append(self.packet, byte_val), escape |-> FALSE,
          ret |-> None]
on_escaped(self, byte_val) ==
    [packet |-> Append(self.packet, byte_val), escape |-> FALSE, ret |-> None]

\* PacketProcessor.process_byte: the fields after the call, and the value returned
process_byte(self, d) ==
    IF invalid_data(d)
    THEN [packet |-> self.packet, escape |-> self.escape, ret |-> None]
    ELSE LET byte_val == d[1] IN
         IF ~self.escape
         THEN IF d = <<ESCAPE_BYTE>> THEN on_escape_byte(self)
              ELSE IF d = <<FRAME_START>> THEN on_frame_start(self)
              ELSE IF d = <<FRAME_END>> THEN on_frame_end(self)
              ELSE on_data_byte(self, byte_val)
         ELSE on_escaped(self, byte_val)

\* PacketProcessor.reset
reset_keeps_escape(self) == [packet |-> <<>>, escape |-> self.escape]
reset(self) == [packet |-> <<>>, escape |-> FALSE]

\* the decoder object
Self == [packet |-> packet, escape |-> escape]

(***************************************************************************)
(* RTDTemperatureTable                                                     *)
(*                                                                         *)
(* Resistances are exact rationals in the code's arithmetic on packet      *)
(* values: rtd_values holds the table in units of 1/10000 ohm, and a       *)
(* measured resistance is counted in units of 1/1280000 ohm, in which      *)
(* raw * 400 / 2**15 is raw * 15625 and a table entry t is t * 128.        *)
(***************************************************************************)
rtd_values == <<
    184932, 189258, 193580, 197899, 202215, 206526, 210834, 215139, 219439, 223737,
    228031, 232321, 236608, 240891, 245171, 249447, 253720, 257990, 262257, 266520,
    270779, 275036, 279289, 283539, 287786, 292029, 296270, 300507, 304741, 308972,
    313200, 317425, 321646, 325865, 330081, 334294, 338503, 342710, 346914, 351115,
    355313, 359508, 363700, 367889, 372076, 376260, 380440, 384619, 388794, 392967,
    397137, 401304, 405469, 409631, 413790, 417946, 422101, 426252, 430401, 434547,
    438691, 442832, 446971, 451107, 455241, 459372, 463501, 467628, 471752, 475873,
    479993, 484109, 488224, 492336, 496446, 500554, 504659, 508762, 512863, 516962,
    521058, 525152, 529244, 533334, 537422, 541507, 545591, 549672, 553751, 557828,
    561903, 565976, 570047, 574115, 578182, 582247, 586310, 590371, 594429, 598486,
    602541, 606594, 610645, 614695, 618742, 622787, 626831, 630873, 634912, 638950,
    642987, 647021, 651054, 655084, 659114, 663141, 667166, 671190, 675212, 679233,
    683251, 687268, 691284, 695297, 699309, 703319, 707328, 711335, 715340, 719344,
    723346, 727347, 731346, 735343, 739339, 743334, 747326, 751318, 755307, 759296,
    763282, 767268, 771251, 775234, 779214, 783194, 787171, 791148, 795123, 799096,
    803068, 807039, 811008, 814976, 818943, 822908, 826871, 830834, 834795, 838754,
    842713, 846669, 850625, 854579, 858532, 862484, 866434, 870383, 874331, 878277,
    882222, 886166, 890109, 894050, 897990, 901929, 905866, 909802, 913737, 917671,
    921603, 925535, 929465, 933394, 937321, 941247, 945173, 949097, 953019, 956941,
    960861, 964780, 968698, 972615, 976531, 980445, 984359, 988271, 992182, 996091,
    1000000, 1003907, 1007814, 1011719, 1015623, 1019526, 1023427, 1027328, 1031227, 1035125,
    1039022, 1042918, 1046813, 1050706, 1054599, 1058490, 1062380, 1066269, 1070156, 1074043,
    1077928, 1081813, 1085696, 1089578, 1093458, 1097338, 1101216, 1105094, 1108970, 1112845,
    1116718, 1120591, 1124463, 1128333, 1132202, 1136070, 1139937, 1143802, 1147667, 1151530,
    1155392, 1159254, 1163113, 1166972, 1170830, 1174686, 1178541, 1182395, 1186248, 1190100,
    1193951, 1197800, 1201648, 1205495, 1209341, 1213186, 1217030, 1220872, 1224713, 1228554,
    1232392, 1236230, 1240067, 1243902, 1247737, 1251570, 1255402, 1259233, 1263063, 1266891,
    1270718, 1274545, 1278370, 1282194, 1286016, 1289838, 1293658, 1297478, 1301296, 1305113,
    1308928, 1312743, 1316556, 1320369, 1324180, 1327990, 1331799, 1335606, 1339413, 1343218,
    1347022, 1350825, 1354627, 1358428, 1362227, 1366026, 1369823, 1373619, 1377414, 1381207,
    1385000, 1388791, 1392582, 1396371, 1400159, 1403945, 1407731, 1411515, 1415299, 1419081,
    1422862, 1426642, 1430420, 1434198, 1437974, 1441749, 1445523, 1449296, 1453068, 1456838,
    1460608, 1464376, 1468143, 1471909, 1475673, 1479437, 1483199, 1486960, 1490721, 1494479,
    1498237, 1501994, 1505749, 1509504, 1513257, 1517009, 1520759, 1524509, 1528257, 1532005,
    1535751, 1539496, 1543240, 1546982, 1550724, 1554464, 1558203, 1561941, 1565678, 1569414,
    1573149, 1576882, 1580614, 1584345, 1588075, 1591804, 1595531, 1599258, 1602983, 1606707,
    1610430, 1614152, 1617872, 1621592, 1625310, 1629027, 1632743, 1636458, 1640172, 1643884,
    1647596, 1651306, 1655015, 1658723, 1662429, 1666135, 1669839, 1673542, 1677245, 1680945,
    1684645, 1688344, 1692041, 1695737, 1699432, 1703126, 1706819, 1710511, 1714201, 1717890,
    1721579, 1725266, 1728951, 1732636, 1736319, 1740002, 1743683, 1747363, 1751042, 1754719,
    1751042, 1754719, 1758396, 1762071, 1765746, 1769419, 1773090, 1776761, 1780431, 1784099,
    1787766, 1791432, 1795097, 1798761, 1802424, 1806085, 1809745, 1813405, 1817063, 1820719,
    1824375, 1828029, 1831683, 1835335, 1838986, 1842636, 1846284, 1849932, 1853578, 1857223,
    1860867, 1864510, 1868152, 1871793, 1875432, 1879070, 1882707, 1886343, 1889978, 1893611,
    1897244, 1900875, 1904505, 1908134, 1911762, 1915389, 1919014, 1922638, 1926262, 1929884,
    1933504, 1937124, 1973257, 1969649, 1966040, 1962429, 1958818, 1955205, 1951591, 1947976,
    1944360, 1940743, 1973257, 1969649, 1966040, 1962429, 1958818, 1955205, 1951591, 1947976,
    1944360, 1940743, 1940743, 1944360, 1947976, 1951591, 1955205, 1958818, 1962429, 1966040,
    1969649, 1973257, 1976864, 1980469, 1984074, 1987677, 1991280, 1994881, 1998481, 2002079,
    2005677, 2009274, 2012869, 2016463, 2020056, 2023648, 2027238, 2030828, 2034416, 2038003,
    2041589, 2045174, 2048758, 2052340, 2055922, 2059502, 2063081, 2066659, 2070236, 2073811,
    2077386, 2080959, 2084531, 2088102, 2091672, 2095240, 2098808, 2102374, 2105939, 2109503,
    2113066, 2116628, 2120188, 2123747, 2127305, 2130862, 2134418, 2137973, 2141527, 2145079,
    2148630, 2152180, 2155729, 2159277, 2162823, 2166369, 2169913, 2173456, 2176998, 2180539,
    2184078, 2187617, 2191154, 2194690, 2198225, 2201759, 2205291, 2208823, 2212353, 2215882,
    2219410, 2222937, 2226463, 2229987, 2233511, 2237033, 2240554, 2244074, 2247592, 2251110,
    2254626, 2258142, 2261656, 2265169, 2268680, 2272191, 2275700, 2279209, 2282716, 2286222,
    2289726, 2293230, 2296733, 2296733, 2303734, 2307233, 2310731, 2314227, 2317723, 2321217,
    2324710, 2328202, 2331693, 2335183, 2338672, 2342159, 2345645, 2349130, 2352614, 2356097,
    2359578, 2363059, 2366538, 2370016, 2373493, 2376969, 2380443, 2383917, 2387389, 2390860,
    2394330, 2397799, 2401267, 2404733, 2408199, 2411663, 2415126, 2418588, 2422048, 2425508,
    2428966, 2432423, 2435879, 2439334, 2442788, 2446241, 2449692, 2453142, 2456591, 2460039,
    2463486, 2466932, 2470376, 2473819, 2477261, 2480702, 2484142, 2487581, 2491018, 2494455,
    2497890, 2501324, 2504757, 2508188, 2511619, 2515048, 2518476, 2521903, 2525329, 2528754,
    2532177, 2535600, 2539021, 2542441, 2545860, 2549278, 2552694, 2556110, 2559524, 2562937,
    2566349, 2569760, 2573170, 2576578, 2579985, 2583392, 2586797, 2590200, 2593603, 2597005,
    2600405, 2603804, 2607202, 2610599, 2613995, 2617389, 2620783, 2624175, 2627566, 2630956,
    2634344, 2637732, 2641119, 2644504, 2647888, 2651271, 2654653, 2658033, 2661413, 2664791,
    2668168, 2671544, 2674919, 2678293, 2681665, 2685036, 2688407, 2691776, 2695143, 2698510,
    2701876, 2705240, 2708603, 2711965, 2715326, 2718686, 2722044, 2725402, 2728758, 2732113,
    2735467, 2738820, 2742172, 2745522, 2748871, 2752219, 2755566, 2758912, 2762257, 2765600,
    2768943, 2772284, 2775624, 2778963, 2782300, 2785637, 2788972, 2792306, 2795639, 2798971,
    2802302, 2805632, 2808960, 2812287, 2815613, 2818938, 2822262, 2825585, 2828906, 2832226,
    2835545, 2838863, 2842180, 2845496, 2848810, 2852124, 2855436, 2858747, 2862057, 2865365,
    2868673, 2871979, 2875284, 2878588, 2881891, 2885193, 2888493, 2891793, 2895091, 2898388,
    2901684, 2904979, 2937862, 2934579, 2931295, 2928010, 2924723, 2921435, 2918146, 2914856,
    2911565, 2908272, 2908272, 2911565, 2914856, 2918146, 2921435, 2924723, 2928010, 2931295,
    2934579, 2937862, 2941144, 2944425, 2947705, 2950983, 2954261, 2957537, 2960812, 2964086,
    2967359, 2970630, 2973901, 2977170, 2980438, 2983705, 2986970, 2990235, 2993498, 2996761,
    3000022, 3003282, 3006540, 3009798, 3013055, 3016310, 3019564, 3022817, 3026069, 3029319,
    3032569, 3035817, 3039064, 3042310, 3045555, 3048799, 3052042, 3055283, 3058523, 3061762,
    3065000, 3068237, 3071472, 3074707, 3077940, 3081172, 3084403, 3087633, 3090861, 3094089,
    3097315, 3100540, 3103764, 3106987, 3110209, 3113429, 3116648, 3119867, 3123084, 3126299,
    3129514, 3132728, 3135940, 3139151, 3142361, 3145570, 3148778, 3151984, 3155190, 3158394,
    3161597, 3164799, 3168000, 3171199, 3174398, 3177595, 3180791, 3183986, 3187180, 3190373,
    3193564, 3196754, 3199944, 3203132, 3206318, 3209504, 3212689, 3215872, 3219054, 3222235,
    3225415, 3228594, 3231771, 3234948, 3238123, 3241297, 3244470, 3247642, 3250812, 3253982,
    3257150, 3260317, 3263483, 3266648, 3269811, 3272974, 3276135, 3279295, 3282454, 3285612,
    3288769, 3291924, 3295079, 3298232, 3301384, 3304535, 3307684, 3310833, 3313980, 3317126,
    3320271, 3323415, 3326558, 3329700, 3332840, 3335979, 3339117, 3342254, 3345390, 3348525,
    3351658, 3354790, 3357922, 3361052, 3364180, 3367308, 3370435, 3373560, 3376684, 3379807,
    3382929, 3386050, 3389169, 3392287, 3395405, 3398521, 3401636, 3404749, 3407862, 3410973,
    3414084, 3417193, 3420301, 3423407, 3426513, 3429617, 3432721, 3435823, 3438924, 3442024,
    3445122, 3448220, 3451316, 3454411, 3457505, 3460598, 3463690, 3466780, 3469870, 3472958,
    3476045, 3479131, 3482215, 3485299, 3488381, 3491463, 3494543, 3497622, 3500699, 3503776,
    3506851, 3509926, 3540605, 3537542, 3534478, 3531413, 3528347, 3525280, 3522211, 3519141,
    3516071, 3512999, 3512999, 3516071, 3519141, 3522211, 3525280, 3528347, 3531413, 3534478,
    3537542, 3540605, 3543666, 3546726, 3549786, 3552844, 3555900, 3558956, 3562011, 3565064,
    3568116, 3571167, 3574217, 3577266, 3580314, 3583360, 3586405, 3589449, 3592492, 3595534,
    3598575, 3601614, 3634972, 3637997, 3641022, 3644045, 3647067, 3650088, 3653107, 3656126,
    3659143, 3662160, 3665175, 3668189, 3671202, 3674213, 3677224, 3680233, 3683241, 3686248,
    3689254, 3692258, 3695262, 3698264, 3701265, 3704265, 3707264, 3710262, 3713258, 3716254,
    3719248, 3722241, 3725233, 3728224, 3731213, 3734202, 3737189, 3740175, 3743160, 3746144,
    3749126, 3752108, 3755088, 3758067, 3761045, 3764022, 3766998, 3769972, 3772945, 3775917,
    3778888, 3781858, 3784827, 3787794, 3790761, 3793726, 3796690, 3799653, 3802615, 3805575,
    3808535, 3811493, 3814450, 3817406, 3820361, 3823314, 3826267, 3829218, 3832168, 3835117,
    3838065, 3841011, 3843957, 3846901, 3849844, 3852786, 3855727, 3858667, 3861605, 3864543,
    3867479, 3870414, 3873348, 3876280, 3879212, 3882142, 3885072, 3888000, 3890926, 3893852,
    3896777, 3899700, 3902623 >>

\* The argument of get_temperature_from_resistance, a Python value:
\*   type  its class ("float", "int", "str", "NoneType");
\*   kind  for a number, "finite" with its exact value in units of
\*         1/1280000 ohm, "huge" for a finite float of 2**63 or more, "inf"
\*         for float('inf'), "neghuge" for a float of -2**63 or less
\*         (float('-inf') included) and "nan" for float('nan'). An int of 2**63 or more converts to a huge float,
\*         and an int of 2**1024 or more, of kind "overflow", to none.
\* The finite values drawn are those of the measuring range (at most
\* 1000 ohm), where the float subtraction keeps the order of the distances.
Resistance(u) == [type |-> "float", kind |-> "finite", units |-> u]
IntResistance(u) == [type |-> "int", kind |-> "finite", units |-> u]
Special(k) == [type |-> "float", kind |-> k, units |-> 0]
SpecialInt(k) == [type |-> "int", kind |-> k, units |-> 0]
NonNumeric(t) == [type |-> t, kind |-> "none", units |-> 0]

Abs(x) == IF x < 0 THEN -x ELSE x

\* abs(cls.rtd_values[i] - rtd_resistance), for the 0-based index i and a
\* finite resistance of u units
Distance(values, i, u) == Abs(values[i + 1] * 128 - u)

\* key(j) < key(i) in min(): whether the key of index j is smaller than the
\* key of index i. Every table entry is below 512, half the spacing of the
\* floats from 2**63 on, so for a huge resistance the float subtraction
\* yields the same key for every entry; a comparison with nan is false.
key_less_or_equal(values, r, j, i) ==
    r.kind = "finite" /\ Distance(values, j, r.units) <= Distance(values, i, r.units)
key_less(values, r, j, i) ==
    r.kind = "finite" /\ Distance(values, j, r.units) < Distance(values, i, r.units)

\* min(range(lo, hi + 1), key=...): the first index of the least key among
\* lo..hi, as the left-to-right scan of min() yields it (a later index
\* replaces the best one only when its key is smaller); the range is halved
\* so that the evaluation stays shallow on the 1083 entries
RECURSIVE MinScan(_, _, _, _)
MinScan(values, r, lo, hi) ==
    IF lo = hi THEN lo
    ELSE LET mid == (lo + hi) \div 2
             left == MinScan(values, r, lo, mid)
             right == MinScan(values, r, mid + 1, hi)
         IN  IF key_less(values, r, right, left) THEN right ELSE left

\* get_temperature_from_resistance: not isinstance(rtd_resistance, (int, float))
not_a_number(r) == r.type \notin {"int", "float", "bool"}

\* get_temperature_from_resistance: rtd_resistance < 0
negative_accepted(r) == FALSE
is_negative(r) ==
    \/ r.kind = "finite" /\ r.units < 0
    \/ r.kind = "neghuge"

\* get_temperature_from_resistance: index - 200
nearest_temp(index) == index - 200

\* RTDTemperatureTable.get_temperature_from_resistance on the table given
lookup(values, r) ==
    IF not_a_number(r)
    THEN [ok |-> FALSE, error |-> "RTD resistance must be a number", value |-> 0]
    ELSE IF is_negative(r)
    THEN [ok |-> FALSE, error |-> "RTD resistance cannot be negative", value |-> 0]
    ELSE IF values = <<>>
    THEN [ok |-> FALSE, error |-> "RTD values table not initialized", value |-> 0]
    ELSE IF r.kind = "overflow"
    THEN [ok |-> FALSE, value |-> 0, error |->
          "Failed to convert RTD resistance: int too large to convert to float"]
    ELSE [ok |-> TRUE, error |-> "",
          value |-> nearest_temp(MinScan(values, r, 0, Len(values) - 1))]

\* the value of a get_temperature_from_resistance call that was not made
NoLookup == [ok |-> FALSE, error |-> "not called", value |-> 0]

\* cls.rtd_values: the calibration list of the class, or an empty list
cls_rtd_values == IF table = "empty" THEN <<>> ELSE rtd_values

get_temperature_from_resistance(r) == lookup(cls_rtd_values, r)

(***************************************************************************)
(* SensorData and SensorDataParser                                         *)
(*                                                                         *)
(* The real-valued fields are kept as the integers they are scaled from:   *)
(* temperature is (hi * 65536 + lo) / 10000, rtd_resistance is             *)
(* units / 1280000 ohm and battery_voltage is units / 10000 volt.          *)
(* The fields that is_valid tests carry the class of their value.          *)
(***************************************************************************)
\* a temperature of the given class; for a number, its value times 10000 in
\* two 16-bit halves
Temperature(t, hi, lo) == [type |-> t, hi |-> hi, lo |-> lo]

\* a battery voltage: a finite float of u / 10000 volt, another value of the
\* given class ("inf", "neginf" and "nan" for the floats that are not finite)
Volts(u) == [type |-> "float", kind |-> "finite", units |-> u]
Voltage(t, k, u) == [type |-> t, kind |-> k, units |-> u]

\* a device id of the given class; for a str, its text
DeviceId(t, text) == [type |-> t, text |-> text]

\* a raw packet of the given class; for a sequence, its items
RawPacket(t, items) == [type |-> t, items |-> items]

\* the classes isinstance(x, (int, float)) admits, and those len() accepts
NumberTypes == {"int", "float", "bool"}
SizedTypes == {"list", "tuple", "str", "bytes"}

\* is_valid: self.battery_voltage < 0 or self.battery_voltage > 10
\* (both comparisons are false for float('nan'))
battery_below_ten(v) ==
    \/ v.kind = "finite" /\ (v.units < 0 \/ v.units >= 100000)
    \/ v.kind \in {"inf", "neginf"}
battery_out_of_range(v) ==
    \/ v.kind = "finite" /\ (v.units < 0 \/ v.units > 100000)
    \/ v.kind \in {"inf", "neginf"}

\* SensorData.is_valid; len() of a value without a length raises TypeError,
\* which is caught and answered with False
is_valid(d) ==
    IF d.temperature.type \notin NumberTypes THEN FALSE
    ELSE IF d.battery_voltage.type \notin NumberTypes THEN FALSE
    ELSE IF battery_out_of_range(d.battery_voltage) THEN FALSE
    ELSE IF d.device_id.type # "str" THEN FALSE
    ELSE IF d.raw_packet.type \notin SizedTypes THEN FALSE
    ELSE IF Len(d.raw_packet.items) # 18 THEN FALSE
    ELSE TRUE

\* the value of a parse_packet call that was not made
NotCalled == [status |-> "none", error |-> "", reading |-> <<>>]
Raised(msg) == [status |-> "error", error |-> msg, reading |-> <<>>]
Returned(d) == [status |-> "ok", error |-> "", reading |-> <<d>>]

\* parse_packet, the guard of the length check: not packet or len(packet) != 18
long_packet_accepted(p) == ~p.some \/ Len(p.val) < 18
invalid_length(p) == ~p.some \/ Len(p.val) = 0 \/ Len(p.val) # 18

\* parse_packet: (hi << 8) | lo, for two bytes
sign_extended(hi, lo) ==
    IF hi >= 128 THEN hi * 256 + lo - 65536 ELSE hi * 256 + lo
low_byte_shifted(hi, lo) == lo * 256 + hi
shift_or(hi, lo) == hi * 256 + lo

\* parse_packet: the f-string of the device id
device_id_reversed(a, b, c, d) ==
    ToString(d) \o " " \o ToString(c) \o " " \o ToString(b) \o " " \o ToString(a)
format_device_id(a, b, c, d) ==
    ToString(a) \o " " \o ToString(b) \o " " \o ToString(c) \o " " \o ToString(d)

\* parse_packet: the device id, from packet[7] .. packet[10]
device_id_from_six(p) == format_device_id(p[7], p[8], p[9], p[10])
device_id_of(p) == format_device_id(p[8], p[9], p[10], p[11])

\* parse_packet: (rtd * 400) / (2**15), in units of 1/1280000 ohm
rtd_in_ohm(rtd) == rtd * 1280000
rtd_to_resistance(rtd) == rtd * 15625

\* parse_packet: the temperature of the lookup, 0 when the lookup raised
failure_as_lowest(conv) == IF conv.ok THEN conv.value ELSE -200
rtd_temperature_of(conv) == IF conv.ok THEN conv.value ELSE 0

\* parse_packet, the field extraction (packet[k] is p[k + 1])
extract(p) ==
    LET rtd == shift_or(p[13], p[12])
        rtd_resistance == rtd_to_resistance(rtd)
        conv == get_temperature_from_resistance(Resistance(rtd_resistance))
    IN  [temperature |->
             Temperature("float", shift_or(p[5], p[4]), shift_or(p[3], p[2])),
         device_id |->
             DeviceId("str", device_id_of(p)),
         rtd_resistance |-> rtd_resistance,
         rtd_temperature |-> rtd_temperature_of(conv),
         thermocouple |-> shift_or(p[15], p[14]),
         battery_voltage |-> Volts(shift_or(p[17], p[16]) * 10),
         raw_packet |-> RawPacket("list", p)]

\* SensorDataParser.parse_packet
parse_packet(p) ==
    IF invalid_length(p)
    THEN Raised("Invalid packet length")
    ELSE LET sensor_data == extract(p.val) IN
         IF sensor_data.rtd_resistance < 0
         THEN Raised("Packet parsing error: RTD resistance cannot be negative")
         ELSE IF ~is_valid(sensor_data)
         THEN Raised("Packet parsing error: Invalid sensor data")
         ELSE Returned(sensor_data)

(***************************************************************************)
(* The byte stream seen from outside the decoder: which bytes are          *)
(* unescaped markers, and whether a frame start is open.                   *)
(***************************************************************************)
NextFrameState(d) ==
    IF Len(d) # 1 THEN frameState
    ELSE IF ~lexEsc /\ d[1] = FRAME_START THEN "open"
    ELSE IF ~lexEsc /\ d[1] = FRAME_END
         THEN IF frameState = "open" THEN "ended" ELSE "strayEnd"
    ELSE IF frameState = "open" THEN "open" ELSE "idle"

NextLexEsc(d) ==
    IF Len(d) # 1 THEN lexEsc ELSE ~lexEsc /\ d[1] = ESCAPE_BYTE

\* number of control-valued elements of a buffer
CtlCount(s) == Cardinality({i \in 1..Len(s) : s[i] \in ControlBytes})

\* the inputs the environment offers in the current state
Offered(d) ==
    LET r == process_byte(Self, d) IN
    /\ Len(r.packet) <= MaxBuf
    /\ CtlCount(r.packet) <= MaxLiteral

(***************************************************************************)
(* Actions                                                                 *)
(***************************************************************************)
\* the shadow decoder before any reset() was called
NoShadow == [on |-> FALSE, packet |-> <<>>, escape |-> FALSE, ret |-> None]

\* the state after construction of a PacketProcessor
InitDecoder ==
    /\ packet = PacketProcessor_init.packet
    /\ escape = PacketProcessor_init.escape
    /\ op = "init"
    /\ data = <<>>
    /\ result = None
    /\ pre = PacketProcessor_init
    /\ frameState = "idle"
    /\ lexEsc = FALSE
    /\ shadow = NoShadow
    /\ parseInput = None
    /\ parseResult = NotCalled

\* the calibration table as the class defines it, and no lookup made
InitTable ==
    /\ table = "calibration"
    /\ lookupInput = NonNumeric("NoneType")
    /\ lookupResult = NoLookup

\* no SensorData object at hand
NoReading ==
    [temperature |-> Temperature("NoneType", 0, 0),
     device_id |-> DeviceId("NoneType", ""),
     rtd_resistance |-> 0,
     rtd_temperature |-> 0,
     thermocouple |-> 0,
     battery_voltage |-> Voltage("NoneType", "none", 0),
     raw_packet |-> RawPacket("NoneType", <<>>)]

InitValid ==
    /\ reading = NoReading
    /\ validResult = FALSE

\* the values of the fields of a packet: the temperature in two 16-bit
\* halves, the four bytes of the device id, the 16-bit RTD, thermocouple and
\* battery values, and the bytes 0, 5, 6 and 17, which carry no field
FieldSet(temp, id, rtd, thermo, batt, reserved) ==
    [temperature |-> temp, device_id |-> id, rtd |-> rtd,
     thermocouple |-> thermo, battery |-> batt, reserved |-> reserved]

NoFields == FieldSet([hi |-> 0, lo |-> 0], <<0, 0, 0, 0>>, 0, 0, 0, <<0, 0, 0, 0>>)

InitFields == fields = NoFields

\* the packets whose parse results are compared across calls
CallPackets ==
    {Some([i \in 1..18 |-> i - 1]),
     Some([i \in 1..18 |-> 255]),
     Some(<<1, 2, 3>>)}

InitSeen ==
    /\ seen = <<>>
    /\ calls = 0

\* SerialPortManager.__init__, and no serial.Serial object constructed
SerialPortManager_init == [ser |-> 0, is_open |-> FALSE]
NoPortOp == [name |-> "init", port_str |-> <<>>, outcome |-> "none"]
NoPortResult == [kind |-> "none", ok |-> FALSE, text |-> "", port |-> <<>>, data |-> None]

InitPort ==
    /\ ser = SerialPortManager_init.ser
    /\ is_open = SerialPortManager_init.is_open
    /\ handles = <<>>
    /\ portOp = NoPortOp
    /\ portPre = [ser |-> 0, is_open |-> FALSE, handles |-> <<>>]
    /\ portResult = NoPortResult

\* the text of a label: a literal text and what is formatted into it
Label(text, arg) == [text |-> text, arg |-> arg]

\* the value labels before any reading: "--"
NoLabels == <<>>

\* a handler: its name, the outcome of ser.read if read_byte reached it,
\* whether a byte was given to process_byte, a packet returned, the labels
\* set and a callback scheduled, and whether it began with the port marked
\* not open while is_reading was set
Event(name, outcome, read, emitted, displayed, scheduled, lost) ==
    [name |-> name, outcome |-> outcome, read |-> read, emitted |-> emitted,
     displayed |-> displayed, scheduled |-> scheduled, lost |-> lost]
NoEvent == Event("init", "none", FALSE, FALSE, FALSE, FALSE, FALSE)

\* no packet returned yet
NoPacketHeld == [some |-> FALSE, frame |-> <<>>, val |-> <<>>, alias |-> FALSE]

\* the window as _create_widgets builds it, no device attached
InitWidgets ==
    /\ is_reading = FALSE
    /\ after = 0
    /\ btn_refresh = "normal"
    /\ btn_open = "normal"
    /\ btn_close = "disabled"
    /\ status_label = Label("Ready", <<>>)
    /\ combo = <<>>
    /\ display = NoLabels
    /\ line = <<>>
    /\ event = NoEvent
    /\ shownAt = 0
    /\ stale = 0
    /\ held = NoPacketHeld

\* the host application before anything is called on it
InitHost ==
    /\ InitPort
    /\ InitWidgets

\* the state of everything but the decoder before any call
InitOthers ==
    /\ InitTable
    /\ InitValid
    /\ InitFields
    /\ InitSeen
    /\ InitHost

Init ==
    /\ InitDecoder
    /\ InitOthers
    /\ junk = <<>>
    /\ payload = <<>>
    /\ pos = 0

\* a call of process_byte(d)
Call(d) ==
    LET r == process_byte(Self, d)
        sh == process_byte([packet |-> shadow.packet, escape |-> shadow.escape], d)
    IN
    /\ packet' = r.packet
    /\ escape' = r.escape
    /\ result' = r.ret
    /\ op' = "process_byte"
    /\ data' = d
    /\ pre' = Self
    /\ frameState' = NextFrameState(d)
    /\ lexEsc' = NextLexEsc(d)
    /\ shadow' = IF shadow.on
                 THEN [on |-> TRUE, packet |-> sh.packet, escape |-> sh.escape,
                       ret |-> sh.ret]
                 ELSE shadow

\* process_byte with exactly one byte
ProcessByte ==
    \E b \in InputBytes :
        /\ Offered(<<b>>)
        /\ Call(<<b>>)
        /\ UNCHANGED <<wireVars, parseVars, otherVars>>

\* process_byte with a zero-length or multi-byte input
ProcessInvalid ==
    \E d \in InvalidInputs :
        /\ Call(d)
        /\ UNCHANGED <<wireVars, parseVars, otherVars>>

\* reset() on the decoder
ResetCall ==
    LET r == reset(Self) IN
    /\ packet' = r.packet
    /\ escape' = r.escape
    /\ result' = None
    /\ op' = "reset"
    /\ data' = <<>>
    /\ pre' = Self
    /\ frameState' = "idle"
    /\ lexEsc' = FALSE
    /\ shadow' = [on |-> TRUE, packet |-> PacketProcessor_init.packet,
                  escape |-> PacketProcessor_init.escape, ret |-> None]

\* a call of reset()
Reset ==
    /\ ResetCall
    /\ UNCHANGED <<wireVars, parseVars, otherVars>>

Next == ProcessByte \/ ProcessInvalid \/ Reset

Spec == Init /\ [][Next]_vars

(***************************************************************************)
(* The wire format: a frame is 0x0D, the 18 data bytes with every          *)
(* control-valued data byte preceded by 0x08, then 0x0A.                   *)
(***************************************************************************)
RECURSIVE Encode(_)
Encode(p) ==
    IF p = <<>> THEN <<>>
    ELSE (IF Head(p) \in ControlBytes THEN <<ESCAPE_BYTE, Head(p)>>
          ELSE <<Head(p)>>) \o Encode(Tail(p))

Repeat(b, n) == [i \in 1..n |-> b]

\* payloads without control values
BasePayloads ==
    {[i \in 1..PACKET_LENGTH |-> 65], [i \in 1..PACKET_LENGTH |-> 100 + i]}

\* a payload made of control values only
AllControlPayload ==
    [i \in 1..PACKET_LENGTH |->
        IF i % 3 = 0 THEN ESCAPE_BYTE
        ELSE IF i % 3 = 1 THEN FRAME_END ELSE FRAME_START]

\* the payloads sent: the base payloads with up to MaxLiteral bytes replaced
\* by control values, and the payload of control values only
Payloads ==
    {AllControlPayload} \cup
    UNION {UNION {{[i \in 1..PACKET_LENGTH |-> IF i \in P THEN f[i] ELSE base[i]] :
                       f \in [P -> ControlBytes]} :
                  P \in {Q \in SUBSET (1..PACKET_LENGTH) : Cardinality(Q) <= MaxLiteral}} :
           base \in BasePayloads}

\* frames that reach an unescaped frame end with fewer than 18 bytes
ShortFrames ==
    {<<FRAME_START>> \o Repeat(65, n) \o <<FRAME_END>> :
        n \in {0, 1, PACKET_LENGTH - 1}}
    \cup {<<FRAME_END>>,
          Repeat(65, 3) \o <<FRAME_END>>,
          <<FRAME_START, ESCAPE_BYTE, FRAME_END, 65, FRAME_END>>}

\* the byte streams sent before the frame; each leaves the escape flag clear
Junks ==
    ShortFrames
    \cup {<<>>,
          Repeat(65, 3),
          <<FRAME_START>> \o Repeat(65, 5),
          Repeat(65, PACKET_LENGTH),
          Repeat(65, MaxBuf),
          <<ESCAPE_BYTE, FRAME_START, 65>>}

\* the bytes on the wire
Wire == junk \o <<FRAME_START>> \o Encode(payload) \o <<FRAME_END>>

InitWire ==
    /\ InitDecoder
    /\ InitOthers
    /\ junk \in Junks
    /\ payload \in Payloads
    /\ pos = 0

\* the next byte of the wire is read and given to process_byte
WireFeed ==
    /\ pos < Len(Wire)
    /\ Call(<<Wire[pos + 1]>>)
    /\ pos' = pos + 1
    /\ UNCHANGED <<junk, payload, parseVars, otherVars>>

NextWire == WireFeed

SpecWire == InitWire /\ [][NextWire]_vars

(***************************************************************************)
(* Calls of parse_packet                                                   *)
(***************************************************************************)
\* the longest packet given to parse_packet
MaxParseLen == 20

\* an 18-byte packet with the given RTD and battery fields
FieldPacket(fill, rtd, batt) ==
    [i \in 1..18 |->
        IF i = 12 THEN rtd % 256
        ELSE IF i = 13 THEN rtd \div 256
        ELSE IF i = 16 THEN batt % 256
        ELSE IF i = 17 THEN batt \div 256
        ELSE fill]

\* the arguments parse_packet is called with
ParseInputs ==
    {None}
    \cup {Some(Repeat(f, n)) : f \in {0, 1, 65, 255}, n \in 0..MaxParseLen}
    \cup {Some(FieldPacket(f, rtd, batt)) :
              f \in {0, 255}, rtd \in {0, 100, 8192, 65535},
              batt \in {0, 3836, 10000, 10001, 65535}}
    \cup {Some([i \in 1..n |-> i - 1]) : n \in {3, 18, 30}}

InitParse == Init

\* a call of parse_packet(p)
ParsePacket ==
    \E p \in ParseInputs :
        /\ parseInput' = p
        /\ parseResult' = parse_packet(p)
        /\ op' = "parse_packet"
        /\ UNCHANGED <<decoderVars, wireVars, otherVars>>

NextParse == ParsePacket

SpecParse == InitParse /\ [][NextParse]_vars

(***************************************************************************)
(* Calls of get_temperature_from_resistance                                *)
(***************************************************************************)
\* the resistances looked up, in units of 1/1280000 ohm: every table entry,
\* and the values this far below and above it (0.01 and 0.1 ohm)
LookupOffsets == {-128000, -12800, 0, 12800, 128000}

LookupInputs ==
    {Resistance(rtd_values[i] * 128 + d) :
         i \in 1..Len(rtd_values), d \in LookupOffsets}
    \cup {Resistance(raw * 15625) : raw \in {0, 1, 100, 8192, 14344, 14345, 65535}}
    \cup {Resistance(u) : u \in {0, 23671296, 1280000000, -1, -1280000, -64000000}}
    \cup {IntResistance(u) : u \in {0, 6400000, 128000000, 1280000000, -12800000}}
    \cup {Special("huge"), Special("inf"), Special("neghuge"), Special("nan")}
    \cup {[type |-> "bool", kind |-> "finite", units |-> u] : u \in {0, 1280000}}
    \cup {SpecialInt("huge"), SpecialInt("neghuge"), SpecialInt("overflow")}
    \cup {NonNumeric("str"), NonNumeric("NoneType")}

\* the tables looked up in: the calibration table, and an empty table
LookupTables == {"calibration", "empty"}

InitLookup ==
    /\ InitDecoder
    /\ junk = <<>>
    /\ payload = <<>>
    /\ pos = 0
    /\ table \in LookupTables
    /\ lookupInput \in LookupInputs
    /\ lookupResult = NoLookup
    /\ InitValid
    /\ InitFields
    /\ InitSeen
    /\ InitHost

\* a call of get_temperature_from_resistance(lookupInput)
LookupCall ==
    /\ op = "init"
    /\ lookupResult' = get_temperature_from_resistance(lookupInput)
    /\ op' = "get_temperature_from_resistance"
    /\ UNCHANGED <<decoderVars, wireVars, parseVars, table, lookupInput,
                   validVars, fieldVars, callVars, hostVars>>

NextLookup == LookupCall

SpecLookup == InitLookup /\ [][NextLookup]_vars

(***************************************************************************)
(* Calls of parse_packet on packets written from their fields              *)
(***************************************************************************)
\* the 18-byte packet that carries the fields, least significant byte first
EncodeFields(f) ==
    <<f.reserved[1],
      f.temperature.lo % 256, f.temperature.lo \div 256,
      f.temperature.hi % 256, f.temperature.hi \div 256,
      f.reserved[2], f.reserved[3],
      f.device_id[1], f.device_id[2], f.device_id[3], f.device_id[4],
      f.rtd % 256, f.rtd \div 256,
      f.thermocouple % 256, f.thermocouple \div 256,
      f.battery % 256, f.battery \div 256,
      f.reserved[4]>>

\* the field values parsed: 0, 25.0 and the largest temperature; device ids
\* of one, two and three digits and of control codes; RTD values at the ends
\* of the table, at 100 ohm and next to its duplicated entry; battery values
\* around 10 volt
FieldSets ==
    {FieldSet(t, i, rtd, thermo, batt, res) :
         t \in {[hi |-> 0, lo |-> 0], [hi |-> 3, lo |-> 53392],
                [hi |-> 65535, lo |-> 65535]},
         i \in {<<0, 0, 0, 0>>, <<9, 10, 99, 100>>, <<255, 13, 10, 8>>},
         rtd \in {0, 1, 8192, 14344, 32768, 65535},
         thermo \in {0, 513, 65535},
         batt \in {0, 3836, 10000, 10001, 65535},
         res \in {<<0, 0, 0, 0>>, <<255, 254, 253, 252>>}}

InitParseFields ==
    /\ InitDecoder
    /\ junk = <<>>
    /\ payload = <<>>
    /\ pos = 0
    /\ InitTable
    /\ InitValid
    /\ fields \in FieldSets
    /\ InitSeen
    /\ InitHost

\* a call of parse_packet on the packet written from the fields
ParseFields ==
    /\ op = "init"
    /\ parseInput' = Some(EncodeFields(fields))
    /\ parseResult' = parse_packet(parseInput')
    /\ op' = "parse_packet"
    /\ UNCHANGED <<decoderVars, wireVars, otherVars>>

NextParseFields == ParseFields

SpecParseFields == InitParseFields /\ [][NextParseFields]_vars

\* the same calls, the class holding the calibration list or an empty list
InitParseTables ==
    /\ InitDecoder
    /\ junk = <<>>
    /\ payload = <<>>
    /\ pos = 0
    /\ table \in LookupTables
    /\ lookupInput = NonNumeric("NoneType")
    /\ lookupResult = NoLookup
    /\ InitValid
    /\ fields \in FieldSets
    /\ InitSeen
    /\ InitHost

SpecParseTables == InitParseTables /\ [][NextParseFields]_vars

(***************************************************************************)
(* Calls of SensorData.is_valid                                            *)
(***************************************************************************)
\* the battery voltages of the readings: floats in units of 1/10000 volt
\* around 0 and 10, the floats that are not finite, ints, a bool, and values
\* that are no numbers
Batteries ==
    {Volts(u) : u \in {-100000, -1, 0, 1, 38360, 99999, 100000, 100001, 655350}}
    \cup {Voltage("float", k, 0) : k \in {"inf", "neginf", "nan"}}
    \cup {Voltage("int", "finite", u) : u \in {-10000, 0, 50000, 100000, 110000}}
    \cup {Voltage("bool", "finite", 10000)}
    \cup {Voltage(t, "none", 0) : t \in {"str", "NoneType"}}

Temperatures ==
    {Temperature("float", 3, 53392), Temperature("float", 65535, 65535),
     Temperature("int", 38, 9632), Temperature("str", 0, 0),
     Temperature("NoneType", 0, 0)}

DeviceIds ==
    {DeviceId("str", "1 2 3 4"), DeviceId("str", ""), DeviceId("int", ""),
     DeviceId("NoneType", "")}

RawPackets ==
    {RawPacket("list", Repeat(0, n)) : n \in {0, 17, 18, 19}}
    \cup {RawPacket("tuple", Repeat(7, 18)), RawPacket("bytes", Repeat(7, 3)),
          RawPacket("NoneType", <<>>), RawPacket("int", <<>>)}

Readings ==
    {[temperature |-> t, device_id |-> i, rtd_resistance |-> 128000000,
      rtd_temperature |-> 0, thermocouple |-> 0, battery_voltage |-> v,
      raw_packet |-> r] :
         t \in Temperatures, i \in DeviceIds, v \in Batteries, r \in RawPackets}

InitIsValid ==
    /\ InitDecoder
    /\ junk = <<>>
    /\ payload = <<>>
    /\ pos = 0
    /\ InitTable
    /\ reading \in Readings
    /\ validResult = FALSE
    /\ InitFields
    /\ InitSeen
    /\ InitHost

\* a call of reading.is_valid()
IsValidCall ==
    /\ op = "init"
    /\ validResult' = is_valid(reading)
    /\ op' = "is_valid"
    /\ UNCHANGED <<decoderVars, wireVars, parseVars, lookupVars, reading,
                   fieldVars, callVars, hostVars>>

NextIsValid == IsValidCall

SpecIsValid == InitIsValid /\ [][NextIsValid]_vars

(***************************************************************************)
(* Calls of parse_packet among calls on the decoder and on the table       *)
(***************************************************************************)
\* the number of calls made in a run
MaxCalls == 3

\* the resistances looked up between the parse calls
CallLookups == {Resistance(128000000), Resistance(-1280000)}

InitCalls == Init

\* a call of parse_packet(p), entered in the list of the calls seen
parse_clears_buffer ==
    \E p \in CallPackets :
        /\ calls < MaxCalls
        /\ parseInput' = p
        /\ parseResult' = parse_packet(p)
        /\ op' = "parse_packet"
        /\ seen' = Append(seen, [input |-> p, result |-> parse_packet(p),
                                 packet |-> packet, escape |-> escape])
        /\ calls' = calls + 1
        /\ packet' = <<>>
        /\ UNCHANGED <<escape, data, result, pre, frameState, lexEsc, shadow,
                       wireVars, lookupVars, validVars, fieldVars, hostVars>>
CallsParse ==
    \E p \in CallPackets :
        /\ calls < MaxCalls
        /\ parseInput' = p
        /\ parseResult' = parse_packet(p)
        /\ op' = "parse_packet"
        /\ seen' = Append(seen, [input |-> p, result |-> parse_packet(p),
                                 packet |-> packet, escape |-> escape])
        /\ calls' = calls + 1
        /\ UNCHANGED <<decoderVars, wireVars, lookupVars, validVars, fieldVars, hostVars>>

\* a call of process_byte between the parse calls
CallsProcessByte ==
    \E b \in InputBytes :
        /\ calls < MaxCalls
        /\ Offered(<<b>>)
        /\ Call(<<b>>)
        /\ calls' = calls + 1
        /\ UNCHANGED <<wireVars, parseVars, lookupVars, validVars, fieldVars, seen, hostVars>>

\* a call of reset between the parse calls
CallsReset ==
    /\ calls < MaxCalls
    /\ ResetCall
    /\ calls' = calls + 1
    /\ UNCHANGED <<wireVars, parseVars, lookupVars, validVars, fieldVars, seen, hostVars>>

\* a call of get_temperature_from_resistance between the parse calls
CallsLookup ==
    \E r \in CallLookups :
        /\ calls < MaxCalls
        /\ lookupInput' = r
        /\ lookupResult' = get_temperature_from_resistance(r)
        /\ op' = "get_temperature_from_resistance"
        /\ calls' = calls + 1
        /\ UNCHANGED <<decoderVars, wireVars, parseVars, table, validVars,
                       fieldVars, seen, hostVars>>

NextCalls == CallsParse \/ CallsProcessByte \/ CallsReset \/ CallsLookup

SpecCalls == InitCalls /\ [][NextCalls]_vars

(***************************************************************************)
(* A frame written from field values, fed to a fresh decoder byte by byte, *)
(* the packet that process_byte returns given to parse_packet              *)
(***************************************************************************)
\* the fields of the packet of test_parse_valid_packet: temperature 1000,
\* RTD 100, battery 3836
TestFields ==
    FieldSet([hi |-> 0, lo |-> 1000], <<1, 2, 3, 4>>, 100, 0, 3836, <<0, 0, 0, 0>>)

EndToEndFields ==
    {f \in FieldSets : f.thermocouple = 513} \cup {TestFields}

InitEndToEnd ==
    /\ InitDecoder
    /\ junk = <<>>
    /\ fields \in EndToEndFields
    /\ payload = EncodeFields(fields)
    /\ pos = 0
    /\ InitTable
    /\ InitValid
    /\ InitSeen
    /\ InitHost

\* the next byte of the frame is given to process_byte, and the packet it
\* returns, if any, to parse_packet
FeedFrame ==
    LET r == process_byte(Self, <<Wire[pos + 1]>>) IN
    /\ pos < Len(Wire)
    /\ Call(<<Wire[pos + 1]>>)
    /\ pos' = pos + 1
    /\ IF r.ret.some
       THEN /\ parseInput' = r.ret
            /\ parseResult' = parse_packet(r.ret)
            /\ seen' = Append(seen, [input |-> r.ret, result |-> parse_packet(r.ret),
                                     packet |-> r.packet, escape |-> r.escape])
            /\ calls' = calls + 1
       ELSE UNCHANGED <<parseVars, callVars>>
    /\ UNCHANGED <<junk, payload, lookupVars, validVars, fieldVars, hostVars>>

NextEndToEnd == FeedFrame

SpecEndToEnd == InitEndToEnd /\ [][NextEndToEnd]_vars

(***************************************************************************)
(* SerialPortManager                                                       *)
(*                                                                         *)
(* A str is the sequence of its characters.  The behaviour of the pyserial *)
(* calls (serial.Serial(...), ser.close(), ser.read(1)) is an outcome the  *)
(* environment chooses; the text of an exception is not kept.              *)
(***************************************************************************)
\* the number of serial.Serial objects constructed in a run
MaxOpens == 2

Whitespace == {" "}
Separator == <<" ", "-", " ">>

\* whether the separator " - " stands at index i of s
separator_at(s, i) ==
    /\ i + 2 <= Len(s)
    /\ SubSeq(s, i, i + 2) = Separator

\* port_str.split(" - ")[0]
first_part(s) ==
    LET found == {i \in 1..Len(s) : separator_at(s, i)} IN
    IF found = {} THEN s
    ELSE SubSeq(s, 1, (CHOOSE i \in found : \A j \in found : i <= j) - 1)

\* str.strip()
strip(s) ==
    LET kept == {i \in 1..Len(s) : s[i] \notin Whitespace} IN
    IF kept = {} THEN <<>>
    ELSE SubSeq(s, CHOOSE i \in kept : \A j \in kept : i <= j,
                   CHOOSE i \in kept : \A j \in kept : i >= j)

\* the (success, message) pair an operation returns; a message that ends
\* with the port name keeps the name apart
Pair(ok, text, port) ==
    [kind |-> "pair", ok |-> ok, text |-> text, port |-> port, data |-> None]
\* the Optional[bytes] that read_byte returns
Bytes(d) ==
    [kind |-> "bytes", ok |-> FALSE, text |-> "", port |-> <<>>, data |-> d]

\* an operation that returns (False, text): no field is assigned
failure_marks_closed(self, hs, text) ==
    [ser |-> 0, is_open |-> FALSE, handles |-> hs, ret |-> Pair(FALSE, text, <<>>)]
failure(self, hs, text) ==
    [ser |-> self.ser, is_open |-> self.is_open, handles |-> hs,
     ret |-> Pair(FALSE, text, <<>>)]

\* SerialPortManager.open_port, hs the serial.Serial objects that exist
open_port(self, hs, port_str, outcome) ==
    IF port_str = <<>>
    THEN failure(self, hs, "Port string is empty")
    ELSE LET port == strip(first_part(port_str)) IN
         IF port = <<>>
         THEN failure(self, hs, "Invalid port format")
         ELSE IF outcome = "opened"
         THEN [ser |-> Len(hs) + 1, is_open |-> TRUE,
               handles |-> Append(hs, "open"),
               ret |-> Pair(TRUE, "Successfully opened ", port)]
         ELSE IF outcome = "SerialException"
         THEN failure(self, hs, "Serial error: ")
         ELSE failure(self, hs, "Unexpected error opening port: ")

\* SerialPortManager.close_port
close_port(self, hs, outcome) ==
    IF self.ser # 0 /\ self.is_open
    THEN IF outcome = "closed"
         THEN [ser |-> self.ser, is_open |-> FALSE,
               handles |-> [hs EXCEPT ![self.ser] = "closed"],
               ret |-> Pair(TRUE, "Port closed successfully", <<>>)]
         ELSE failure(self, hs, "Error closing port: ")
    ELSE failure(self, hs, "Port is not open")

\* read_byte, the handler of serial.SerialException
read_error_ignored(self, hs) ==
    [ser |-> self.ser, is_open |-> self.is_open, handles |-> hs,
     ret |-> Bytes(None)]
on_read_error(self, hs) ==
    [ser |-> self.ser, is_open |-> FALSE, handles |-> hs, ret |-> Bytes(None)]

\* SerialPortManager.read_byte, b the byte that ser.read(1) delivers
read_byte(self, hs, outcome, b) ==
    IF self.ser # 0 /\ self.is_open
    THEN IF outcome = "byte"
         THEN [ser |-> self.ser, is_open |-> self.is_open, handles |-> hs,
               ret |-> Bytes(Some(<<b>>))]
         ELSE IF outcome = "timeout"
         THEN [ser |-> self.ser, is_open |-> self.is_open, handles |-> hs,
               ret |-> Bytes(None)]
         ELSE IF outcome = "SerialException"
         THEN on_read_error(self, hs)
         ELSE [ser |-> self.ser, is_open |-> self.is_open, handles |-> hs,
               ret |-> Bytes(None)]
    ELSE [ser |-> self.ser, is_open |-> self.is_open, handles |-> hs,
          ret |-> Bytes(None)]

OpenOutcomes == {"opened", "SerialException", "Exception"}
CloseOutcomes == {"closed", "Exception"}
ReadOutcomes == {"byte", "timeout", "SerialException", "Exception"}

\* the port strings given to open_port: "", "   ", "COM1 - USB", "COM1",
\* " COM1 " and " - USB"
PortStrings ==
    {<<>>,
     <<" ", " ", " ">>,
     <<"C", "O", "M", "1", " ", "-", " ", "U", "S", "B">>,
     <<"C", "O", "M", "1">>,
     <<" ", "C", "O", "M", "1", " ">>,
     <<" ", "-", " ", "U", "S", "B">>}

\* the bytes that ser.read(1) delivers to a direct call
ReadBytes == {0, 65}

PortSelf == [ser |-> ser, is_open |-> is_open]

\* the manager's fields and the call's record after an operation returned r
PortReturns(name, port_str, outcome, r) ==
    /\ ser' = r.ser
    /\ is_open' = r.is_open
    /\ handles' = r.handles
    /\ portOp' = [name |-> name, port_str |-> port_str, outcome |-> outcome]
    /\ portPre' = [ser |-> ser, is_open |-> is_open, handles |-> handles]
    /\ portResult' = r.ret

\* a call of open_port(port_str)
OpenPortCall ==
    \E port_str \in PortStrings, outcome \in OpenOutcomes :
        LET r == open_port(PortSelf, handles, port_str, outcome) IN
        /\ Len(r.handles) <= MaxOpens
        /\ PortReturns("open_port", port_str, outcome, r)
        /\ UNCHANGED <<decoderVars, op, wireVars, parseVars, lookupVars,
                       validVars, fieldVars, callVars, guiVars>>

\* a call of close_port()
ClosePortCall ==
    \E outcome \in CloseOutcomes :
        /\ PortReturns("close_port", <<>>, outcome,
                       close_port(PortSelf, handles, outcome))
        /\ UNCHANGED <<decoderVars, op, wireVars, parseVars, lookupVars,
                       validVars, fieldVars, callVars, guiVars>>

\* a call of read_byte()
ReadByteCall ==
    \E outcome \in ReadOutcomes, b \in ReadBytes :
        /\ PortReturns("read_byte", <<>>, outcome,
                       read_byte(PortSelf, handles, outcome, b))
        /\ UNCHANGED <<decoderVars, op, wireVars, parseVars, lookupVars,
                       validVars, fieldVars, callVars, guiVars>>

NextPort == OpenPortCall \/ ClosePortCall \/ ReadByteCall

SpecPort == Init /\ [][NextPort]_vars

(***************************************************************************)
(* SensorGUI                                                               *)
(*                                                                         *)
(* Tk runs one handler at a time: a click on a button that is not disabled *)
(* or a callback that root.after holds.  The message boxes that end        *)
(* _update_ports and _open_port change nothing and are left out.  A label  *)
(* holds the value its text is formatted from.                             *)
(***************************************************************************)
\* the port the box lists: "COM1 - USB"
ListedPort == <<"C", "O", "M", "1", " ", "-", " ", "U", "S", "B">>

\* what serial.tools.list_ports.comports() finds
PortLists == {<<>>, <<ListedPort>>}

\* the frame of a packet on the line
Frame(p) == <<FRAME_START>> \o Encode(p) \o <<FRAME_END>>

\* a reading with escaped data bytes, and a battery value above 10 volt
EscapedFields ==
    FieldSet([hi |-> 3, lo |-> 53392], <<255, 13, 10, 8>>, 14344, 513, 10000,
             <<0, 0, 0, 0>>)
FailingFields ==
    FieldSet([hi |-> 0, lo |-> 0], <<9, 10, 99, 100>>, 8192, 513, 10001,
             <<0, 0, 0, 0>>)

\* what the device does at a read that is not a byte: no byte within the
\* timeout, a serial.SerialException, another exception
Gap == 256
Fault == 257
Glitch == 258

\* what ser.read(1) does at the element e of the line; past the end of the
\* line no byte arrives
outcome_of(e) ==
    IF e < 256 THEN "byte"
    ELSE IF e = Gap THEN "timeout"
    ELSE IF e = Fault THEN "SerialException"
    ELSE "Exception"

\* what the device does, read by read: 18 bytes and a frame end that no
\* frame start precedes, a pause, a frame; a frame with a battery value that
\* fails the parse, a frame, a read error; a frame of three bytes, an
\* exception that is no SerialException, a frame, a read error, two bytes; a
\* frame cut after an escape byte, a frame
Lines ==
    {Repeat(1, PACKET_LENGTH) \o <<FRAME_END, Gap>> \o Frame(EncodeFields(TestFields)),
     Frame(EncodeFields(FailingFields)) \o Frame(EncodeFields(EscapedFields))
         \o <<Fault>>,
     <<FRAME_START, 65, 65, 65, FRAME_END, Glitch>> \o Frame(EncodeFields(TestFields))
         \o <<Fault, FRAME_START, 65>>,
     <<FRAME_START, 65, ESCAPE_BYTE>> \o Frame(EncodeFields(TestFields))}

\* the values _process_sensor_data puts in the labels
LabelsOf(d) ==
    <<[temp_value |-> d.temperature,
       device_id_value |-> d.device_id.text,
       rtd_value |-> d.rtd_temperature,
       thermo_value |-> d.thermocouple,
       battery_voltage_value |-> d.battery_voltage]>>

\* process_byte and reset: whether self.packet is the list object of before
\* the call ("same": a byte was appended to it, or nothing done) or a new
\* list, and whether the list returned is a copy or the buffer itself
frame_end_clears_in_place(self) ==
    IF Len(self.packet) = PACKET_LENGTH
    THEN [buffer |-> "same", ret |-> "buffer"]
    ELSE [buffer |-> "same", ret |-> "none"]
frame_end_objects(self) ==
    IF Len(self.packet) = PACKET_LENGTH
    THEN [buffer |-> "new", ret |-> "copy"]
    ELSE [buffer |-> "new", ret |-> "none"]

process_byte_objects(self, d) ==
    IF invalid_data(d) THEN [buffer |-> "same", ret |-> "none"]
    ELSE IF ~self.escape
         THEN IF d = <<ESCAPE_BYTE>> THEN [buffer |-> "same", ret |-> "none"]
              ELSE IF d = <<FRAME_START>> THEN [buffer |-> "new", ret |-> "none"]
              ELSE IF d = <<FRAME_END>> THEN frame_end_objects(self)
              ELSE [buffer |-> "same", ret |-> "none"]
         ELSE [buffer |-> "same", ret |-> "none"]

reset_objects == [buffer |-> "new", ret |-> "none"]

\* the packet held by the caller after a call that left the decoder's buffer
\* as buf and returned ret
Holding(o, buf, ret) ==
    IF ret.some
    THEN LET shared == o.ret = "buffer" /\ o.buffer = "same" IN
         [some |-> TRUE, frame |-> ret.val,
          val |-> IF shared THEN buf ELSE ret.val, alias |-> shared]
    ELSE IF held.alias
    THEN IF o.buffer = "same"
         THEN [held EXCEPT !.val = buf]
         ELSE [held EXCEPT !.alias = FALSE]
    ELSE held

\* SensorGUI._update_ports
update_ports(text, ports) ==
    IF ports = <<>>
    THEN [combo |-> text, status |-> Label("No ports available", <<>>)]
    ELSE [combo |-> ports[1], status |-> Label("Found port(s)", <<"1">>)]

\* SensorGUI.__init__, the device sending one of the byte streams
InitGui ==
    /\ InitDecoder
    /\ junk = <<>>
    /\ payload = <<>>
    /\ pos = 0
    /\ InitTable
    /\ InitValid
    /\ InitFields
    /\ seen = <<>>
    /\ calls = 0
    /\ InitPort
    /\ is_reading = FALSE
    /\ after = 0
    /\ btn_refresh = "normal"
    /\ btn_open = "normal"
    /\ btn_close = "disabled"
    /\ \E ports \in PortLists :
           /\ combo = update_ports(<<>>, ports).combo
           /\ status_label = update_ports(<<>>, ports).status
    /\ display = NoLabels
    /\ line \in Lines
    /\ event = NoEvent
    /\ shownAt = 0
    /\ stale = 0
    /\ held = NoPacketHeld

\* SensorGUI._read_data, called by the handler name with the manager's
\* fields mgr, the serial objects hs, is_reading as reading_on, the status
\* label showing label and pending callbacks held
ReadData(name, mgr, hs, reading_on, label, pending) ==
    IF ~reading_on \/ ~mgr.is_open
    THEN /\ status_label' = Label("Waiting for connection...", <<>>)
         /\ after' = pending
         /\ is_open' = mgr.is_open
         /\ event' = Event(name, "none", FALSE, FALSE, FALSE, FALSE,
                           reading_on /\ ~mgr.is_open)
         /\ UNCHANGED <<decoderVars, op, parseVars, pos, display, shownAt,
                        stale, held, portOp, portPre, portResult>>
    ELSE LET e == IF pos < Len(line) THEN line[pos + 1] ELSE Gap
             outcome == outcome_of(e)
             rb == read_byte(mgr, hs, outcome, e)
         IN
         /\ is_open' = rb.is_open
         /\ portOp' = [name |-> "read_byte", port_str |-> <<>>, outcome |-> outcome]
         /\ portPre' = [ser |-> mgr.ser, is_open |-> mgr.is_open, handles |-> hs]
         /\ portResult' = rb.ret
         /\ after' = pending + 1
         /\ pos' = IF pos < Len(line) THEN pos + 1 ELSE pos
         /\ IF rb.ret.data.some
            THEN LET d == rb.ret.data.val
                     r == process_byte(Self, d)
                     parsed == parse_packet(r.ret)
                 IN
                 /\ Call(d)
                 /\ held' = Holding(process_byte_objects(Self, d), r.packet, r.ret)
                 /\ stale' = IF Len(r.packet) < stale THEN Len(r.packet) ELSE stale
                 /\ IF r.ret.some
                    THEN /\ parseInput' = r.ret
                         /\ parseResult' = parsed
                         /\ IF parsed.status = "ok"
                            THEN /\ display' = LabelsOf(parsed.reading[1])
                                 /\ status_label' = Label("Receiving data...", <<>>)
                                 /\ shownAt' = pos + 1
                            ELSE /\ status_label' =
                                        Label("Parse error: ", <<parsed.error>>)
                                 /\ UNCHANGED <<display, shownAt>>
                    ELSE /\ status_label' = label
                         /\ UNCHANGED <<parseVars, display, shownAt>>
                 /\ event' = Event(name, outcome, TRUE, r.ret.some,
                                   r.ret.some /\ parsed.status = "ok", TRUE, FALSE)
            ELSE /\ status_label' = Label("Waiting for data...", <<>>)
                 /\ event' = Event(name, outcome, FALSE, FALSE, FALSE, TRUE, FALSE)
                 /\ UNCHANGED <<decoderVars, op, parseVars, display,
                                shownAt, stale, held>>

\* a click on Refresh: _update_ports
ClickRefresh ==
    /\ btn_refresh = "normal"
    /\ \E ports \in PortLists :
           /\ combo' = update_ports(combo, ports).combo
           /\ status_label' = update_ports(combo, ports).status
    /\ event' = Event("_update_ports", "none", FALSE, FALSE, FALSE, FALSE,
                      is_reading /\ ~is_open)
    /\ UNCHANGED <<decoderVars, op, wireVars, parseVars, lookupVars, validVars,
                   fieldVars, callVars, portVars, is_reading, after, buttonVars,
                   display, line, shownAt, stale, held>>

\* a click on Open: _open_port, which on success runs _read_data itself
ClickOpen ==
    /\ btn_open = "normal"
    /\ IF combo = <<>>
       THEN /\ status_label' = Label("No port selected", <<>>)
            /\ event' = Event("_open_port", "none", FALSE, FALSE, FALSE, FALSE,
                              is_reading /\ ~is_open)
            /\ UNCHANGED <<decoderVars, op, parseVars, pos, portVars,
                           is_reading, after, buttonVars, display, shownAt,
                           stale, held>>
       ELSE \E opening \in OpenOutcomes :
                LET r == open_port(PortSelf, handles, combo, opening) IN
                /\ Len(r.handles) <= MaxOpens
                /\ ser' = r.ser
                /\ handles' = r.handles
                /\ IF r.ret.ok
                   THEN /\ btn_open' = "disabled"
                        /\ btn_refresh' = "disabled"
                        /\ btn_close' = "normal"
                        /\ is_reading' = TRUE
                        /\ ReadData("_open_port",
                                    [ser |-> r.ser, is_open |-> r.is_open],
                                    r.handles, TRUE,
                                    Label("Opened: ", combo), after)
                   ELSE /\ status_label' = Label(r.ret.text, <<>>)
                        /\ is_open' = r.is_open
                        /\ portOp' = [name |-> "open_port", port_str |-> combo,
                                      outcome |-> opening]
                        /\ portPre' = [ser |-> ser, is_open |-> is_open,
                                       handles |-> handles]
                        /\ portResult' = r.ret
                        /\ event' = Event("_open_port", "none", FALSE, FALSE,
                                          FALSE, FALSE, is_reading /\ ~is_open)
                        /\ UNCHANGED <<decoderVars, op, parseVars, pos,
                                       is_reading, after, buttonVars, display,
                                       shownAt, stale, held>>
    /\ UNCHANGED <<junk, payload, lookupVars, validVars, fieldVars, callVars,
                   combo, line>>

\* _close_port: what packet_processor holds when the handler returns
decoder_kept_on_close(self) == self
decoder_after_close(self) == reset(self)

\* a click on Close: _close_port
ClickClose ==
    /\ btn_close = "normal"
    /\ \E outcome \in CloseOutcomes :
           PortReturns("close_port", <<>>, outcome,
                       close_port(PortSelf, handles, outcome))
    /\ is_reading' = FALSE
    /\ status_label' = Label(portResult'.text, <<>>)
    /\ btn_close' = "disabled"
    /\ btn_refresh' = "normal"
    /\ btn_open' = "normal"
    /\ packet' = decoder_after_close(Self).packet
    /\ escape' = decoder_after_close(Self).escape
    /\ result' = None
    /\ op' = "reset"
    /\ data' = <<>>
    /\ pre' = Self
    /\ frameState' = "idle"
    /\ lexEsc' = FALSE
    /\ shadow' = [on |-> TRUE, packet |-> PacketProcessor_init.packet,
                  escape |-> PacketProcessor_init.escape, ret |-> None]
    /\ stale' = Len(packet')
    /\ held' = Holding(reset_objects, packet', None)
    /\ event' = Event("_close_port", "none", FALSE, FALSE, FALSE, FALSE,
                      is_reading /\ ~is_open)
    /\ UNCHANGED <<wireVars, parseVars, lookupVars, validVars, fieldVars,
                   callVars, after, combo, display, line, shownAt>>

\* a callback that root.after holds is run: _read_data
TimerFires ==
    /\ after > 0
    /\ ReadData("_read_data", PortSelf, handles, is_reading, status_label,
                after - 1)
    /\ UNCHANGED <<junk, payload, lookupVars, validVars, fieldVars, callVars,
                   ser, handles, is_reading, buttonVars, combo, line>>

NextGui == ClickRefresh \/ ClickOpen \/ ClickClose \/ TimerFires

SpecGui == InitGui /\ [][NextGui]_vars

(***************************************************************************)
(* Properties of the frame decoder                                         *)
(***************************************************************************)
\* the last operation was process_byte with the single byte b
Processed(b) == op = "process_byte" /\ data = <<b>>

\* C1: process_byte(0x0A) with the escape flag clear returns the accumulated
\* buffer, same bytes in the same order, iff the buffer holds exactly 18
\* bytes, returns nothing otherwise, and leaves the buffer empty in both
\* cases; every packet returned has exactly 18 elements.
C1_FrameEnd ==
    /\ (Processed(FRAME_END) /\ ~pre.escape) =>
           /\ Len(pre.packet) = 18 => result = Some(pre.packet)
           /\ Len(pre.packet) # 18 => result = None
           /\ packet = <<>>
    /\ result.some => Len(result.val) = 18

C1_Witness ==
    /\ Processed(FRAME_END)
    /\ ~pre.escape
    /\ Len(pre.packet) = 18
    /\ CtlCount(pre.packet) > 0
    /\ result = Some(pre.packet)
    /\ packet = <<>>

\* the cases of C1 where nothing is returned
C1_ShortReached == Processed(FRAME_END) /\ ~pre.escape /\ Len(pre.packet) = 17
C1_LongReached == Processed(FRAME_END) /\ ~pre.escape /\ Len(pre.packet) = 19

\* C2: an unescaped 0x08 sets the escape flag, appends nothing and returns
\* nothing; the next single byte, whatever its value, is appended as data,
\* returns nothing and clears the escape flag, so that the byte after it is
\* interpreted normally.
C2_Escape ==
    /\ (Processed(ESCAPE_BYTE) /\ ~pre.escape) =>
           escape /\ packet = pre.packet /\ result = None
    /\ (op = "process_byte" /\ Len(data) = 1 /\ pre.escape) =>
           /\ packet = Append(pre.packet, data[1])
           /\ result = None
           /\ ~escape

C2_Witness ==
    /\ Processed(FRAME_START)
    /\ pre.escape
    /\ Len(pre.packet) > 0
    /\ packet = Append(pre.packet, FRAME_START)
    /\ ~escape

\* every control code is reached as the escaped byte
C2_EscapedEscapeReached == Processed(ESCAPE_BYTE) /\ pre.escape
C2_EscapedEndReached == Processed(FRAME_END) /\ pre.escape /\ Len(pre.packet) = 18

\* C3 as stated: process_byte(0x0D) leaves the buffer empty and returns
\* nothing in every decoder state, also when the escape flag is set.
C3_AsStated ==
    Processed(FRAME_START) => packet = <<>> /\ result = None

\* C3 as amended: process_byte(0x0D) with the escape flag clear leaves the
\* buffer empty and returns nothing whatever the buffer holds; with the
\* escape flag set the 0x0D is appended to the buffer as data, nothing is
\* returned and the flag is cleared.
C3_FrameStart ==
    /\ (Processed(FRAME_START) /\ ~pre.escape) =>
           packet = <<>> /\ result = None /\ ~escape
    /\ (Processed(FRAME_START) /\ pre.escape) =>
           packet = Append(pre.packet, FRAME_START) /\ result = None /\ ~escape

C3_Witness ==
    /\ Processed(FRAME_START)
    /\ ~pre.escape
    /\ Len(pre.packet) > 18
    /\ packet = <<>>

\* C4: process_byte returns a packet only when the stream consumed so far
\* ends with an unescaped 0x0D, exactly 18 decoded data bytes and an
\* unescaped 0x0A; no packet is returned for data that no frame start
\* preceded.
C4_OnlyFramed ==
    result.some =>
        /\ Processed(FRAME_END)
        /\ Len(pre.packet) = 18
        /\ frameState = "ended"

\* the part of C4 the decoder keeps: a packet is returned only on an
\* unescaped 0x0A that follows 18 decoded data bytes
C4_OnlyOnFrameEnd ==
    result.some =>
        /\ Processed(FRAME_END)
        /\ ~pre.escape
        /\ Len(pre.packet) = 18
        /\ frameState \in {"ended", "strayEnd"}

C4_StrayReached == result.some /\ frameState = "strayEnd"

\* C7 as stated: the buffer holds between 0 and 18 elements in every
\* reachable state.
C7_AsStated == Len(packet) <= 18

\* C7 as amended: the buffer holds 0 or more byte values and nothing caps it
\* at 18: a data byte (any byte while escaped, a non-control byte otherwise)
\* is appended whatever the buffer's length, also at 18 and beyond; only an
\* unescaped 0x0D, an unescaped 0x0A or reset() empties it.
C7_Buffer ==
    /\ \A i \in 1..Len(packet) : packet[i] \in 0..255
    /\ (op = "process_byte" /\ Len(data) = 1
            /\ (pre.escape \/ data[1] \notin ControlBytes)) =>
           packet = Append(pre.packet, data[1])
    /\ (op = "process_byte" /\ Len(packet) < Len(pre.packet)) =>
           /\ ~pre.escape
           /\ data \in {<<FRAME_START>>, <<FRAME_END>>}
           /\ packet = <<>>

C7_Witness ==
    /\ op = "process_byte"
    /\ Len(pre.packet) = 18
    /\ Len(packet) = 19

\* C8: process_byte with a zero-length input or with more than one byte
\* returns nothing and leaves the buffer and the escape flag as they were.
C8_InvalidInput ==
    (op = "process_byte" /\ Len(data) # 1) =>
        result = None /\ packet = pre.packet /\ escape = pre.escape

C8_Witness ==
    /\ op = "process_byte"
    /\ Len(data) = 2
    /\ escape
    /\ Len(packet) = 18
    /\ Self = pre

C8_EmptyReached == op = "process_byte" /\ data = <<>> /\ Len(packet) > 0

\* C9: reset() yields the state of a freshly constructed decoder, a second
\* reset() changes nothing, and the bytes processed after a reset() give the
\* outputs (and states) a fresh decoder gives for them.
C9_Reset ==
    /\ op = "reset" =>
           /\ Self = PacketProcessor_init
           /\ reset(Self) = Self
    /\ shadow.on =>
           /\ packet = shadow.packet
           /\ escape = shadow.escape
           /\ op = "process_byte" => result = shadow.ret

C9_Witness ==
    /\ op = "reset"
    /\ pre.escape
    /\ Len(pre.packet) > 0
    /\ Self = PacketProcessor_init

\* a packet is returned after a reset()
C9_PacketAfterReset == shadow.on /\ result.some /\ result = shadow.ret

(***************************************************************************)
(* Properties of the decoder on the wire format (SpecWire)                 *)
(***************************************************************************)
\* C5: wire round trip: 0x0D, the 18-byte payload with each 0x08/0x0A/0x0D
\* data byte preceded by 0x08, then 0x0A, fed byte by byte to a decoder
\* whose escape flag is clear (whatever its buffer holds), returns nothing
\* on every byte but the last and the original payload on the final 0x0A;
\* the escape bytes do not count toward the 18.
C5_RoundTrip ==
    /\ pos = Len(junk) => ~escape
    /\ pos > Len(junk) =>
           /\ op = "process_byte"
           /\ pos < Len(Wire) => result = None
           /\ pos = Len(Wire) => result = Some(payload)

C5_Witness ==
    /\ pos = Len(Wire)
    /\ Len(junk) > PACKET_LENGTH
    /\ CtlCount(payload) = PACKET_LENGTH
    /\ Len(Wire) = Len(junk) + 2 + 2 * PACKET_LENGTH
    /\ result = Some(payload)

\* a payload with a single escaped byte is returned
C5_OneLiteralReached ==
    pos = Len(Wire) /\ CtlCount(payload) = 1 /\ result = Some(payload)

\* C6: a frame that reaches an unescaped frame end with fewer than 18
\* accumulated bytes produces no packet and leaves the decoder with an empty
\* buffer and a clear escape flag, so that a well-formed frame arriving
\* immediately afterwards is emitted intact.
C6_ShortFrame ==
    junk \in ShortFrames =>
        /\ (pos > 0 /\ pos <= Len(junk)) => result = None
        /\ pos = Len(junk) =>
               /\ Processed(FRAME_END)
               /\ ~pre.escape
               /\ Len(pre.packet) < 18
               /\ Self = PacketProcessor_init
        /\ pos = Len(Wire) => result = Some(payload)

C6_Witness ==
    /\ junk \in ShortFrames
    /\ Len(junk) = PACKET_LENGTH + 1
    /\ pos = Len(Wire)
    /\ CtlCount(payload) > 0
    /\ result = Some(payload)

\* the decoder right after the short frame
C6_AfterShortReached ==
    /\ junk \in ShortFrames
    /\ pos = Len(junk)
    /\ Len(pre.packet) = 17
    /\ packet = <<>>

(***************************************************************************)
(* Properties of parse_packet (SpecParse)                                  *)
(***************************************************************************)
\* C10: parse_packet fails with the invalid-packet-length error, and returns
\* no reading, whenever the packet is absent (None), empty, or of any length
\* other than 18, shorter or longer.
C10_InvalidLength ==
    (op = "parse_packet" /\ (~parseInput.some \/ Len(parseInput.val) # 18)) =>
        /\ parseResult.status = "error"
        /\ parseResult.error = "Invalid packet length"
        /\ parseResult.reading = <<>>

C10_Witness ==
    /\ op = "parse_packet"
    /\ parseInput.some
    /\ Len(parseInput.val) = 30
    /\ parseResult = Raised("Invalid packet length")

\* the other cases of C10, and a packet of 18 bytes that is parsed
C10_NoneReached ==
    op = "parse_packet" /\ parseInput = None /\ parseResult.status = "error"
C10_EmptyReached ==
    op = "parse_packet" /\ parseInput = Some(<<>>) /\ parseResult.status = "error"
C10_ShortReached ==
    op = "parse_packet" /\ parseInput.some /\ Len(parseInput.val) = 17
        /\ parseResult.status = "error"
C10_ParsedReached ==
    op = "parse_packet" /\ parseResult.status = "ok"
        /\ parseResult.reading[1].battery_voltage = Volts(38360)

(***************************************************************************)
(* Properties of get_temperature_from_resistance (SpecLookup)              *)
(***************************************************************************)
LookedUp == op = "get_temperature_from_resistance"

\* the resistance is an int, a float or a bool, and it is not negative
\* (float('nan') is neither negative nor non-negative)
Numeric(r) == r.type \in {"int", "float", "bool"}
NonNegative(r) ==
    \/ r.kind = "finite" /\ r.units >= 0
    \/ r.kind \in {"huge", "inf", "overflow"}

\* the order of the exact distances |rtd_values[j] - r| and
\* |rtd_values[i] - r| of a non-negative r: a resistance above every entry
\* is closer to the larger entry, and float('inf') is as far from every entry
ExactlyCloser(r, j, i) ==
    CASE r.kind = "finite" ->
             Abs(cls_rtd_values[j + 1] * 128 - r.units)
                 < Abs(cls_rtd_values[i + 1] * 128 - r.units)
      [] r.kind \in {"huge", "overflow"} -> cls_rtd_values[j + 1] > cls_rtd_values[i + 1]
      [] OTHER -> FALSE
ExactlyAsClose(r, j, i) == ~ExactlyCloser(r, j, i) /\ ~ExactlyCloser(r, i, j)

\* index is the lowest index of the table that minimises the distance to r
LowestNearest(r, index) ==
    /\ index \in 0..(Len(cls_rtd_values) - 1)
    /\ \A j \in 0..(Len(cls_rtd_values) - 1) :
           /\ ~ExactlyCloser(r, j, index)
           /\ j < index => ~ExactlyAsClose(r, j, index)

\* C16: for every non-negative resistance r the lookup returns i - 200 where
\* i is the lowest index of the table that minimises |rtd_values[i] - r|: no
\* entry is strictly closer to r and no lower index is equally close.
C16_LowestNearest ==
    (LookedUp /\ table = "calibration" /\ Numeric(lookupInput)
         /\ NonNegative(lookupInput)) =>
        /\ lookupResult.ok
        /\ LowestNearest(lookupInput, lookupResult.value + 200)

\* the part of C16 that holds: the resistances of the measuring range
C16_LowestNearestInRange ==
    (LookedUp /\ table = "calibration" /\ Numeric(lookupInput)
         /\ lookupInput.kind = "finite" /\ lookupInput.units >= 0) =>
        /\ lookupResult.ok
        /\ LowestNearest(lookupInput, lookupResult.value + 200)

\* a resistance of the duplicated entry 175.1042 (indices 398 and 400) is
\* looked up, and the result is the first of the two
C16_DuplicateReached ==
    /\ LookedUp /\ table = "calibration"
    /\ lookupInput = Resistance(1751042 * 128)
    /\ lookupResult.ok /\ lookupResult.value = 198

\* a float of 2**63 or more is looked up and yields -200
C16_HugeReached ==
    /\ LookedUp /\ table = "calibration"
    /\ lookupInput = Special("huge")
    /\ lookupResult.ok /\ lookupResult.value = -200

\* the entries of the calibration table, its smallest and its largest one
Entries == {rtd_values[i] : i \in 1..Len(rtd_values)}
SmallestEntry == CHOOSE x \in Entries : \A y \in Entries : x <= y
LargestEntry == CHOOSE x \in Entries : \A y \in Entries : x >= y

\* C17: every resistance at or below the smallest entry of the table
\* (18.4932, index 0), 0.0 included, yields -200; every resistance at or
\* above the largest entry (390.2623), 1000.0 included, yields the maximum
\* index of the table minus 200.
C17_Boundaries ==
    (LookedUp /\ table = "calibration" /\ Numeric(lookupInput)
         /\ NonNegative(lookupInput)) =>
        /\ (lookupInput.kind = "finite"
                /\ lookupInput.units <= SmallestEntry * 128) =>
               /\ lookupResult.ok
               /\ lookupResult.value = -200
        /\ (\/ lookupInput.kind = "finite"
                   /\ lookupInput.units >= LargestEntry * 128
            \/ lookupInput.kind \in {"huge", "inf", "overflow"}) =>
               /\ lookupResult.ok
               /\ lookupResult.value = Len(rtd_values) - 1 - 200

\* the part of C17 that holds: the resistances of the measuring range
C17_BoundariesInRange ==
    (LookedUp /\ table = "calibration" /\ Numeric(lookupInput)
         /\ lookupInput.kind = "finite" /\ lookupInput.units >= 0) =>
        /\ SmallestEntry = 184932 /\ rtd_values[1] = SmallestEntry
        /\ LargestEntry = 3902623
        /\ lookupInput.units <= SmallestEntry * 128 =>
               lookupResult.ok /\ lookupResult.value = -200
        /\ lookupInput.units >= LargestEntry * 128 =>
               lookupResult.ok /\ lookupResult.value = Len(rtd_values) - 1 - 200

\* 0.0 and 1000.0 are looked up, and float('inf')
C17_ZeroReached ==
    /\ LookedUp /\ table = "calibration" /\ lookupInput = Resistance(0)
    /\ lookupResult.ok /\ lookupResult.value = -200
C17_ThousandReached ==
    /\ LookedUp /\ table = "calibration" /\ lookupInput = Resistance(1280000000)
    /\ lookupResult.ok /\ lookupResult.value = 882
C17_InfReached ==
    /\ LookedUp /\ table = "calibration" /\ lookupInput = Special("inf")
    /\ lookupResult.ok /\ lookupResult.value = -200

\* C18: for every non-negative numeric resistance the lookup never fails and
\* returns an integer t with -200 <= t <= len(rtd_values) - 201, so that
\* t + 200 is a valid index of the calibration table.
C18_Total ==
    (LookedUp /\ table = "calibration" /\ Numeric(lookupInput)
         /\ NonNegative(lookupInput)) =>
        /\ lookupResult.ok
        /\ lookupResult.value \in Int
        /\ -200 <= lookupResult.value
        /\ lookupResult.value <= Len(rtd_values) - 201
        /\ lookupResult.value + 200 \in 0..(Len(rtd_values) - 1)

\* the part of C18 that holds: every float, and every int below 2**1024
C18_TotalConvertible ==
    (LookedUp /\ table = "calibration" /\ Numeric(lookupInput)
         /\ NonNegative(lookupInput) /\ lookupInput.kind # "overflow") =>
        /\ lookupResult.ok
        /\ lookupResult.value \in Int
        /\ -200 <= lookupResult.value
        /\ lookupResult.value <= Len(rtd_values) - 201

\* an int of 2**1024 or more is looked up, and the call fails
C18_OverflowReached ==
    /\ LookedUp /\ table = "calibration"
    /\ lookupInput = SpecialInt("overflow")
    /\ ~lookupResult.ok

\* C19: the lookup fails with an error, and returns no temperature, when the
\* resistance is not a number (no int and no float), when it is negative and
\* when the table is empty; the checks are made in this order and before the
\* table is scanned, so the error of a scan never replaces theirs.
C19_Rejected ==
    LookedUp =>
        /\ ~Numeric(lookupInput) =>
               lookupResult =
                   [ok |-> FALSE, value |-> 0,
                    error |-> "RTD resistance must be a number"]
        /\ (Numeric(lookupInput)
                /\ (\/ lookupInput.kind = "finite" /\ lookupInput.units < 0
                    \/ lookupInput.kind = "neghuge")) =>
               lookupResult =
                   [ok |-> FALSE, value |-> 0,
                    error |-> "RTD resistance cannot be negative"]
        /\ (Numeric(lookupInput) /\ (NonNegative(lookupInput)
                                        \/ lookupInput.kind = "nan")
                /\ table = "empty") =>
               lookupResult =
                   [ok |-> FALSE, value |-> 0,
                    error |-> "RTD values table not initialized"]

\* a negative resistance is looked up in the calibration table
C19_Witness ==
    /\ LookedUp /\ table = "calibration"
    /\ lookupInput = Resistance(-1280000)
    /\ lookupResult.error = "RTD resistance cannot be negative"

\* the other cases of C19: a string, and an empty table
C19_TypeReached ==
    /\ LookedUp /\ lookupInput = NonNumeric("str") /\ ~lookupResult.ok
C19_EmptyReached ==
    /\ LookedUp /\ table = "empty" /\ lookupInput = Resistance(128000000)
    /\ lookupResult.error = "RTD values table not initialized"
C19_EmptyOverflowReached ==
    /\ LookedUp /\ table = "empty" /\ lookupInput = SpecialInt("overflow")
    /\ lookupResult.error = "RTD values table not initialized"

(***************************************************************************)
(* Properties of SensorData.is_valid (SpecIsValid)                         *)
(***************************************************************************)
Validated == op = "is_valid"

\* 0 <= v <= 10 for a number v; float('nan') is in no interval
WithinZeroToTen(v) == v.kind = "finite" /\ 0 <= v.units /\ v.units <= 100000

\* C12: is_valid returns true exactly when temperature and battery_voltage
\* are numbers, device_id is a string, raw_packet has length 18 and
\* 0 <= battery_voltage <= 10, both bounds included.
C12_Exactly ==
    Validated =>
        (validResult <=>
            /\ reading.temperature.type \in {"int", "float", "bool"}
            /\ reading.battery_voltage.type \in {"int", "float", "bool"}
            /\ reading.device_id.type = "str"
            /\ reading.raw_packet.type \in {"list", "tuple", "str", "bytes"}
            /\ Len(reading.raw_packet.items) = 18
            /\ WithinZeroToTen(reading.battery_voltage))

\* the part of C12 that holds: the readings whose battery voltage is no
\* float('nan')
C12_ExactlyComparable ==
    (Validated /\ reading.battery_voltage.kind # "nan") =>
        (validResult <=>
            /\ reading.temperature.type \in {"int", "float", "bool"}
            /\ reading.battery_voltage.type \in {"int", "float", "bool"}
            /\ reading.device_id.type = "str"
            /\ reading.raw_packet.type \in {"list", "tuple", "str", "bytes"}
            /\ Len(reading.raw_packet.items) = 18
            /\ WithinZeroToTen(reading.battery_voltage))

\* a reading with battery_voltage float('nan') is found valid
C12_NanReached ==
    /\ Validated
    /\ reading.battery_voltage = Voltage("float", "nan", 0)
    /\ validResult

\* the boundaries: 0.0 and 10.0 are valid, -0.0001 and 10.0001 are not
C12_ZeroReached ==
    Validated /\ reading.battery_voltage = Volts(0) /\ validResult
C12_TenReached ==
    Validated /\ reading.battery_voltage = Volts(100000) /\ validResult
C12_AboveTenReached ==
    /\ Validated /\ reading.battery_voltage = Volts(100001) /\ ~validResult
    /\ reading.temperature.type = "float" /\ reading.device_id.type = "str"
    /\ reading.raw_packet = RawPacket("list", Repeat(0, 18))
C12_BelowZeroReached ==
    /\ Validated /\ reading.battery_voltage = Volts(-1) /\ ~validResult
    /\ reading.temperature.type = "float" /\ reading.device_id.type = "str"
    /\ reading.raw_packet = RawPacket("list", Repeat(0, 18))

(***************************************************************************)
(* Properties of parse_packet on packets of 18 bytes (SpecParseFields)     *)
(***************************************************************************)
Parsed == op = "parse_packet"

\* packet[k] of the packet parsed, and the 16-bit value at packet[k], packet[k + 1]
PacketByte(k) == parseInput.val[k + 1]
PacketWord(k) == PacketByte(k) + 256 * PacketByte(k + 1)

\* C11: for every packet of 18 bytes, parse_packet succeeds if and only if
\* the battery raw value packet[15] + 256 * packet[16] is at most 10000; no
\* value of the other bytes makes the parse fail, and a packet with a battery
\* raw value above 10000 fails with an error, it is not clamped.
C11_BatteryOnly ==
    (Parsed /\ parseInput.some /\ Len(parseInput.val) = 18) =>
        /\ parseResult.status = "ok" <=> PacketWord(15) <= 10000
        /\ PacketWord(15) > 10000 =>
               parseResult = Raised("Packet parsing error: Invalid sensor data")

\* a packet with the battery raw value 10000 and every other byte 255 is parsed
C11_Witness ==
    /\ Parsed
    /\ fields = FieldSet([hi |-> 65535, lo |-> 65535], <<255, 13, 10, 8>>,
                         65535, 65535, 10000, <<255, 254, 253, 252>>)
    /\ parseResult.status = "ok"

\* a packet with the battery raw value 10001 and every other byte 0 fails
C11_AboveReached ==
    /\ Parsed
    /\ fields = FieldSet([hi |-> 0, lo |-> 0], <<0, 0, 0, 0>>, 0, 0, 10001,
                         <<0, 0, 0, 0>>)
    /\ parseResult.status = "error"

\* the decimal numeral of a natural number
DigitChars == <<"0", "1", "2", "3", "4", "5", "6", "7", "8", "9">>
RECURSIVE Decimal(_)
Decimal(n) ==
    IF n < 10 THEN DigitChars[n + 1]
    ELSE Decimal(n \div 10) \o DigitChars[(n % 10) + 1]

\* C13: the fields of a reading follow the little-endian layout of the
\* packet p: temperature * 10000 is p[1] + 2^8 p[2] + 2^16 p[3] + 2^24 p[4]
\* (given in its two 16-bit halves), device_id is the decimal values of p[7],
\* p[8], p[9], p[10] joined by single spaces, rtd_resistance is
\* (p[11] + 256 p[12]) * 400 / 32768 (15625 units of 1/1280000 ohm each),
\* thermocouple is p[13] + 256 p[14], battery_voltage * 1000 is
\* p[15] + 256 p[16], and raw_packet is p.
C13_Layout ==
    (Parsed /\ parseResult.status = "ok") =>
        LET r == parseResult.reading[1] IN
        /\ r.temperature = Temperature("float", PacketWord(3), PacketWord(1))
        /\ r.device_id =
               DeviceId("str", Decimal(PacketByte(7)) \o " " \o Decimal(PacketByte(8))
                                   \o " " \o Decimal(PacketByte(9))
                                   \o " " \o Decimal(PacketByte(10)))
        /\ r.rtd_resistance = PacketWord(11) * 15625
        /\ r.thermocouple = PacketWord(13)
        /\ r.battery_voltage = Volts(PacketWord(15) * 10)
        /\ r.raw_packet = RawPacket("list", parseInput.val)

\* a packet whose words have different low and high bytes is parsed
C13_Witness ==
    /\ Parsed
    /\ parseInput = Some(<<255, 144, 208, 3, 0, 254, 253, 9, 10, 99, 100,
                           8, 56, 1, 2, 252, 14, 252>>)
    /\ parseResult.status = "ok"
    /\ parseResult.reading[1].device_id.text = "9 10 99 100"
    /\ parseResult.reading[1].battery_voltage = Volts(38360)

\* C14: writing a field set (battery raw value at most 10000) into a packet
\* of 18 bytes by the inverse of the layout, the bytes without a field
\* arbitrary, and parsing that packet gives back the raw values of the
\* fields and the components of the device id.
C14_RoundTrip ==
    (Parsed /\ fields.battery <= 10000) =>
        /\ parseResult.status = "ok"
        /\ LET r == parseResult.reading[1] IN
           /\ r.temperature.hi = fields.temperature.hi
           /\ r.temperature.lo = fields.temperature.lo
           /\ r.device_id.text =
                  Decimal(fields.device_id[1]) \o " " \o Decimal(fields.device_id[2])
                      \o " " \o Decimal(fields.device_id[3])
                      \o " " \o Decimal(fields.device_id[4])
           /\ r.rtd_resistance = fields.rtd * 15625
           /\ r.thermocouple = fields.thermocouple
           /\ r.battery_voltage.units = fields.battery * 10

\* a field set of values above 255, and one with control codes as device id
C14_Witness ==
    /\ Parsed
    /\ fields = FieldSet([hi |-> 3, lo |-> 53392], <<9, 10, 99, 100>>, 14344,
                         513, 3836, <<255, 254, 253, 252>>)
    /\ parseResult.status = "ok"
    /\ parseResult.reading[1].thermocouple = 513
C14_ControlIdReached ==
    /\ Parsed
    /\ fields.device_id = <<255, 13, 10, 8>>
    /\ parseResult.status = "ok"
    /\ parseResult.reading[1].device_id.text = "255 13 10 8"

\* C20: the rtd_resistance decoded from a packet of 18 bytes is never
\* negative, so parse_packet never rejects a packet for a negative resistance
\* and the lookup it calls never fails: the rtd_temperature of every reading
\* is the nearest-neighbour result of the table, not the 0 put in its place
\* when the lookup fails.
C20_NeverNegative ==
    (Parsed /\ parseInput.some /\ Len(parseInput.val) = 18) =>
        /\ parseResult.error # "Packet parsing error: RTD resistance cannot be negative"
        /\ parseResult.status = "ok" =>
               LET r == parseResult.reading[1] IN
               /\ r.rtd_resistance >= 0
               /\ LowestNearest(Resistance(r.rtd_resistance), r.rtd_temperature + 200)

\* a resistance as close to both duplicated entries 175.1042 is decoded
C20_Witness ==
    /\ Parsed
    /\ fields.rtd = 14344
    /\ parseResult.status = "ok"
    /\ parseResult.reading[1].rtd_resistance = 14344 * 15625
    /\ parseResult.reading[1].rtd_temperature = 198

\* the largest RTD value, and the one whose nearest entry is that of 0 degrees
C20_LargestReached ==
    /\ Parsed /\ fields.rtd = 65535 /\ parseResult.status = "ok"
    /\ parseResult.reading[1].rtd_temperature = 882
C20_ZeroDegreesReached ==
    /\ Parsed /\ fields.rtd = 8192 /\ parseResult.status = "ok"
    /\ parseResult.reading[1].rtd_temperature = 0

C15_OtherParseReached ==
    /\ Len(seen) = 3
    /\ seen[1].input = seen[3].input
    /\ seen[1].input # seen[2].input
    /\ seen[1].result = seen[3].result
C15_LookupReached ==
    /\ Parsed
    /\ Len(seen) = 2
    /\ calls = 3
    /\ seen[1].input = seen[2].input
    /\ lookupResult # NoLookup
C15_FailingReached ==
    /\ Len(seen) = 2
    /\ seen[1].input = seen[2].input
    /\ seen[1].result = Raised("Packet parsing error: Invalid sensor data")
    /\ seen[2].result = seen[1].result

(***************************************************************************)
(* Properties of parse_packet when the lookup fails (SpecParseTables)      *)
(***************************************************************************)
\* C21: when the calibration lookup fails during parse_packet the parse does
\* not abort: rtd_temperature is 0, every other field is decoded as usual,
\* and the parse succeeds or fails on the battery voltage as it does when
\* the lookup succeeds.
C21_LookupFailure ==
    (Parsed /\ table = "empty") =>
        /\ ~get_temperature_from_resistance(Resistance(PacketWord(11) * 15625)).ok
        /\ parseResult.status = "ok" <=> PacketWord(15) <= 10000
        /\ parseResult.status # "ok" =>
               parseResult = Raised("Packet parsing error: Invalid sensor data")
        /\ parseResult.status = "ok" =>
               LET r == parseResult.reading[1] IN
               /\ r.rtd_temperature = 0
               /\ r.temperature = Temperature("float", PacketWord(3), PacketWord(1))
               /\ r.device_id.text =
                      Decimal(PacketByte(7)) \o " " \o Decimal(PacketByte(8))
                          \o " " \o Decimal(PacketByte(9))
                          \o " " \o Decimal(PacketByte(10))
               /\ r.rtd_resistance = PacketWord(11) * 15625
               /\ r.thermocouple = PacketWord(13)
               /\ r.battery_voltage = Volts(PacketWord(15) * 10)
               /\ r.raw_packet = RawPacket("list", parseInput.val)

\* a packet whose resistance is nearest to 198 degrees is parsed while the
\* table is empty
C21_Witness ==
    /\ Parsed
    /\ table = "empty"
    /\ fields.rtd = 14344
    /\ parseResult.status = "ok"
    /\ parseResult.reading[1].rtd_temperature = 0
    /\ parseResult.reading[1].rtd_resistance = 14344 * 15625

\* with the empty table too, a battery value above 10 volt fails the parse
C21_BatteryReached ==
    /\ Parsed
    /\ table = "empty"
    /\ fields.battery = 10001
    /\ parseResult.status = "error"

(***************************************************************************)
(* More properties of parse_packet on packets of 18 bytes (SpecParseFields)*)
(***************************************************************************)
\* the settings of the bytes 0, 5, 6 and 17 that a packet is compared under
ReservedSettings == {<<0, 0, 0, 0>>, <<255, 254, 253, 252>>, <<13, 10, 8, 65>>}

\* what a parse gave, the raw_packet of its reading left out
Outcome(r) ==
    [status |-> r.status,
     error |-> r.error,
     values |-> IF r.status = "ok"
                THEN <<[temperature |-> r.reading[1].temperature,
                        device_id |-> r.reading[1].device_id,
                        rtd_resistance |-> r.reading[1].rtd_resistance,
                        rtd_temperature |-> r.reading[1].rtd_temperature,
                        thermocouple |-> r.reading[1].thermocouple,
                        battery_voltage |-> r.reading[1].battery_voltage]>>
                ELSE <<>>]

\* C28: the bytes 0, 5, 6 and 17 do not influence the decoded values: two
\* packets of 18 bytes that differ only there give the same parse outcome,
\* and on success the same temperature, device_id, rtd_resistance,
\* rtd_temperature, thermocouple and battery_voltage.
C28_ReservedIgnored ==
    Parsed =>
        \A res \in ReservedSettings :
            LET other == Some(EncodeFields([fields EXCEPT !.reserved = res]))
            IN  /\ \A k \in {1, 2, 3, 4} \cup (7..16) :
                       other.val[k + 1] = PacketByte(k)
                /\ Outcome(parse_packet(other)) = Outcome(parseResult)

\* a packet with the bytes 255, 254, 253, 252 there is parsed, and differs
\* from the packets it is compared with
C28_Witness ==
    /\ Parsed
    /\ fields.reserved = <<255, 254, 253, 252>>
    /\ fields.device_id = <<9, 10, 99, 100>>
    /\ PacketByte(0) = 255 /\ PacketByte(5) = 254
    /\ PacketByte(6) = 253 /\ PacketByte(17) = 252
    /\ parseResult.status = "ok"
    /\ parseResult.reading[1].device_id.text = "9 10 99 100"

\* C30: the temperature is decoded as an unsigned 32-bit value, so that
\* 0 <= temperature * 10000 <= 2^32 - 1 for every reading (each 16-bit half
\* of the value lies in 0..65535): no packet gives a negative temperature.
C30_Unsigned ==
    (Parsed /\ parseResult.status = "ok") =>
        LET t == parseResult.reading[1].temperature IN
        /\ t.hi \in 0..65535
        /\ t.lo \in 0..65535

\* the packet with the temperature bytes FF FF FF FF is parsed
C30_Witness ==
    /\ Parsed
    /\ PacketByte(1) = 255 /\ PacketByte(2) = 255
    /\ PacketByte(3) = 255 /\ PacketByte(4) = 255
    /\ parseResult.status = "ok"
    /\ parseResult.reading[1].temperature = Temperature("float", 65535, 65535)

(***************************************************************************)
(* Properties of SerialPortManager (SpecPort)                              *)
(***************************************************************************)
\* the manager's fields are as they were before the last operation
PortUnchanged ==
    /\ ser = portPre.ser
    /\ is_open = portPre.is_open
    /\ handles = portPre.handles

\* no port was open when the last operation was called
WasNotOpen == ~(portPre.ser # 0 /\ portPre.is_open)

\* the port string of the last open_port call names no device
NoDeviceNamed ==
    \/ portOp.port_str = <<>>
    \/ \A i \in 1..Len(portOp.port_str) :
           \/ portOp.port_str[i] \in Whitespace
           \/ \E j \in 1..i : separator_at(portOp.port_str, j)

\* C27: a SerialPortManager operation whose precondition is not met reports
\* the failure as a value and leaves is_open and the serial handle as they
\* were: open_port with an empty or blank port string, or with a device that
\* cannot be opened, returns (False, message); close_port with no port open
\* returns (False, message); read_byte with no port open returns no byte.
C27_FailureAsValue ==
    /\ (portOp.name = "open_port"
            /\ (NoDeviceNamed \/ portOp.outcome # "opened")) =>
           /\ portResult.kind = "pair"
           /\ ~portResult.ok
           /\ portResult.text \in
                  {"Port string is empty", "Invalid port format",
                   "Serial error: ", "Unexpected error opening port: "}
           /\ portOp.port_str = <<>> <=> portResult.text = "Port string is empty"
           /\ PortUnchanged
    /\ (portOp.name = "close_port" /\ WasNotOpen) =>
           /\ portResult = Pair(FALSE, "Port is not open", <<>>)
           /\ PortUnchanged
    /\ (portOp.name = "read_byte" /\ WasNotOpen) =>
           /\ portResult = Bytes(None)
           /\ PortUnchanged

\* open_port(" - USB") fails while a port is open, and the port stays open
C27_Witness ==
    /\ portOp.name = "open_port"
    /\ portOp.port_str = <<" ", "-", " ", "U", "S", "B">>
    /\ portResult = Pair(FALSE, "Invalid port format", <<>>)
    /\ portPre.is_open /\ is_open
    /\ ser = 1 /\ handles = <<"open">>

\* the device cannot be opened
C27_DeviceReached ==
    /\ portOp.name = "open_port"
    /\ portOp.outcome = "SerialException"
    /\ portResult = Pair(FALSE, "Serial error: ", <<>>)
    /\ portPre.is_open /\ is_open

\* close_port and read_byte are called after a read error marked the port
\* not open
C27_CloseReached ==
    /\ portOp.name = "close_port"
    /\ portPre.ser = 1 /\ ~portPre.is_open
    /\ portResult = Pair(FALSE, "Port is not open", <<>>)
C27_ReadReached ==
    /\ portOp.name = "read_byte"
    /\ portPre.ser = 1 /\ ~portPre.is_open
    /\ portOp.outcome = "byte"
    /\ portResult = Bytes(None)

\* open_port opens the device named before the separator, stripped
C27_OpenedReached ==
    /\ portOp.name = "open_port"
    /\ portOp.port_str = <<" ", "C", "O", "M", "1", " ">>
    /\ portResult = Pair(TRUE, "Successfully opened ", <<"C", "O", "M", "1">>)
    /\ is_open /\ ser = Len(handles)

C22_EscapedReached ==
    /\ fields.device_id = <<255, 13, 10, 8>>
    /\ fields.rtd = 14344
    /\ fields.battery = 10000
    /\ pos = Len(Wire)
    /\ Len(Wire) = 24
    /\ parseResult.status = "ok"
    /\ parseResult.reading[1].device_id.text = "255 13 10 8"
    /\ parseResult.reading[1].rtd_temperature = 198

\* a frame with a battery value above 10000 gives a packet and no reading
C22_AboveReached ==
    /\ fields.battery = 10001
    /\ pos = Len(Wire)
    /\ result = Some(payload)
    /\ parseResult = Raised("Packet parsing error: Invalid sensor data")

(***************************************************************************)
(* Properties of the read loop (SpecGui)                                   *)
(***************************************************************************)
\* the last handler gave process_byte the byte that ends a frame: an
\* unescaped 0x0A after an unescaped 0x0D and exactly 18 decoded data bytes
FrameCompleted ==
    /\ event.read
    /\ Processed(FRAME_END)
    /\ ~pre.escape
    /\ Len(pre.packet) = PACKET_LENGTH
    /\ frameState = "ended"

\* the labels show the reading parsed from the packet of the last call
ShowsLastPacket ==
    /\ parseInput = Some(pre.packet)
    /\ parseResult = parse_packet(Some(pre.packet))
    /\ parseResult.status = "ok"
    /\ display = LabelsOf(parseResult.reading[1])
    /\ shownAt = pos

\* each packet process_byte returns is parsed, and a reading shown, within
\* the handler that read its last byte
ParsedAtOnce ==
    event.emitted =>
        /\ result = Some(pre.packet)
        /\ parseInput = result
        /\ parseResult = parse_packet(result)
        /\ parseResult.status = "ok" <=> event.displayed
        /\ event.displayed => ShowsLastPacket

\* a reading is shown once per byte that ends a frame, later readings later
ShownInOrder ==
    /\ shownAt <= pos
    /\ shownAt' # shownAt =>
           /\ shownAt' = pos'
           /\ pos' = pos + 1
           /\ event'.displayed
    /\ event'.displayed => shownAt' > shownAt
    /\ display' # display => event'.displayed
    /\ pos' >= pos

\* C23: in the read loop each packet the decoder returns is parsed and its
\* reading handed to the display before the next byte is read; the labels
\* are set once per completed valid frame, in the order of the frames on the
\* byte stream, never twice for a frame and never without a completed frame.
C23_OnePerFrame ==
    /\ [](/\ ParsedAtOnce
          /\ event.displayed <=>
                 (FrameCompleted /\ parse_packet(Some(pre.packet)).status = "ok"))
    /\ [][ShownInOrder]_vars

\* the part of C23 the loop keeps: the labels are set once per packet that
\* process_byte returns and parse_packet accepts
C23_OnePerPacket ==
    /\ [](/\ ParsedAtOnce
          /\ event.displayed <=>
                 (/\ event.read
                  /\ Processed(FRAME_END)
                  /\ ~pre.escape
                  /\ Len(pre.packet) = PACKET_LENGTH
                  /\ parse_packet(Some(pre.packet)).status = "ok"))
    /\ [][ShownInOrder]_vars

\* 18 bytes 0x01 and 0x0A, no 0x0D before them, set the labels
C23_StrayReached ==
    /\ event.displayed
    /\ frameState = "strayEnd"
    /\ pos = 19
    /\ display[1].temp_value = Temperature("float", 257, 257)
    /\ display[1].device_id_value = "1 1 1 1"
    /\ display[1].rtd_value = -200
    /\ display[1].thermo_value = 257
    /\ display[1].battery_voltage_value = Volts(2570)
    /\ status_label = Label("Receiving data...", <<>>)
    /\ after = 1

\* a second frame sets the labels after a first
C23_SecondReached ==
    /\ event.displayed
    /\ FrameCompleted
    /\ pos = 40
    /\ display[1].device_id_value = "1 2 3 4"

\* C24: _close_port always resets the decoder: after it the buffer is empty
\* and the escape flag clear, so whenever reading starts on a port opened
\* (again) the decoder is in its initial state, and no packet returned after
\* the port was opened again holds a byte read before the close.
C24_CloseResets ==
    /\ event.name = "_close_port" => Self = PacketProcessor_init
    /\ (event.name = "_open_port" /\ event.outcome # "none") =>
           IF event.read THEN pre = PacketProcessor_init
           ELSE Self = PacketProcessor_init
    /\ stale = 0
    /\ ~is_reading => Self = PacketProcessor_init

\* the port is closed after ten bytes of a frame and opened again: the
\* buffer holds the one byte read since
C24_Witness ==
    /\ event.name = "_open_port"
    /\ event.read
    /\ Len(handles) = 2
    /\ line[1] = FRAME_START
    /\ pos = 11
    /\ pre = PacketProcessor_init
    /\ packet = <<line[11]>>

\* _close_port finds a byte buffered and the escape flag set
C24_EscapeReached ==
    /\ event.name = "_close_port"
    /\ pre.escape
    /\ pre.packet = <<65>>
    /\ Self = PacketProcessor_init

\* a packet is returned on a port that was opened again
C24_PacketReached ==
    /\ event.emitted
    /\ Len(handles) = 2
    /\ handles[1] = "closed"

\* the last handler gave process_byte an unescaped 0x0A that ends no frame
\* of a frame start and 18 data bytes
MalformedEnded ==
    /\ event.read
    /\ Processed(FRAME_END)
    /\ ~pre.escape
    /\ ~(Len(pre.packet) = PACKET_LENGTH /\ frameState = "ended")

\* the last handler parsed a packet and the parse failed
ParseFailed ==
    /\ event.emitted
    /\ parseResult.status = "error"

\* what a handler that read a byte leaves alone unless it shows a reading
OnlyStatus ==
    /\ ~event'.displayed =>
           /\ display' = display
           /\ shownAt' = shownAt
    /\ event'.name = "_read_data" =>
           UNCHANGED <<is_reading, buttonVars, combo, ser, handles>>
    /\ (event'.name = "_read_data" /\ event'.read) => is_open' = is_open

\* the loop goes on after a byte: a callback is held, the port is open and
\* is_reading set
LoopGoesOn ==
    /\ event.scheduled
    /\ after >= 1
    /\ is_reading
    /\ is_open

\* C25: a malformed frame causes no update of the labels, and a packet whose
\* parse fails changes only the status message and does not stop the read
\* loop: while the port is open and reading is on, _read_data schedules
\* itself again after every byte, and a valid frame that arrives later is
\* still decoded, parsed and shown.
C25_LoopSurvives ==
    /\ [](/\ MalformedEnded => ~event.displayed
          /\ ParseFailed =>
                 /\ ~event.displayed
                 /\ status_label = Label("Parse error: ", <<parseResult.error>>)
          /\ event.read => LoopGoesOn
          /\ (FrameCompleted /\ parse_packet(Some(pre.packet)).status = "ok") =>
                 /\ event.displayed
                 /\ ShowsLastPacket)
    /\ [][OnlyStatus]_vars

\* the part of C25 the loop keeps: a frame end after fewer or more than 18
\* data bytes, and a packet whose parse fails, leave the labels alone
C25_DiscardIgnored ==
    /\ []((MalformedEnded /\ Len(pre.packet) # PACKET_LENGTH) =>
              (~event.emitted /\ ~event.displayed))
    /\ [](/\ ParseFailed =>
                 /\ ~event.displayed
                 /\ status_label = Label("Parse error: ", <<parseResult.error>>)
          /\ event.read => LoopGoesOn
          /\ (FrameCompleted /\ parse_packet(Some(pre.packet)).status = "ok") =>
                 /\ event.displayed
                 /\ ShowsLastPacket)
    /\ [][OnlyStatus]_vars

\* a frame of three bytes ends: nothing is shown
C25_ShortReached ==
    /\ MalformedEnded
    /\ pre.packet = <<65, 65, 65>>
    /\ frameState = "ended"
    /\ display = NoLabels
    /\ LoopGoesOn

\* a parse fails on the battery value
C25_FailedReached ==
    /\ ParseFailed
    /\ status_label =
           Label("Parse error: ", <<"Packet parsing error: Invalid sensor data">>)
    /\ display = NoLabels
    /\ LoopGoesOn

\* the frame after the failing one is shown by the same loop
C25_LaterReached ==
    /\ FrameCompleted
    /\ event.displayed
    /\ pos = 45
    /\ Len(handles) = 1
    /\ display[1].device_id_value = "255 13 10 8"
    /\ LoopGoesOn

\* the frame after a frame cut behind an escape byte is not decoded: its
\* 0x0D is taken as the escaped data byte
C25_SwallowedReached ==
    /\ MalformedEnded
    /\ Len(pre.packet) = 20
    /\ pre.packet[1] = 65 /\ pre.packet[2] = FRAME_START
    /\ frameState = "strayEnd"
    /\ display = NoLabels

\* a read error marked the port not open and no Close was clicked since
PortLost == is_reading /\ ~is_open

\* the last handler is the one in which read_byte met the read error
ReadErrorMet ==
    /\ event.outcome = "SerialException"
    /\ portOp.name = "read_byte"

\* while the port is marked not open no byte is read or given to the
\* decoder, and no callback is added to those that root.after holds
NothingFed ==
    (PortLost /\ PortLost') =>
        /\ pos' = pos
        /\ packet' = packet
        /\ escape' = escape
        /\ after' <= after
        /\ handles' = handles

\* C26 as stated: on a serial read error read_byte returns no byte and marks
\* the port not open, and from then on the read loop gives no further byte
\* to the decoder and does not schedule itself again, until a port is
\* opened again.
C26_AsStated ==
    /\ [](/\ ReadErrorMet =>
                 /\ portResult = Bytes(None)
                 /\ ~is_open
                 /\ ~event.read
                 /\ ~event.scheduled
          /\ event.lost => (~event.read /\ ~event.scheduled))
    /\ [][NothingFed]_vars

\* C26 as amended: on a serial read error read_byte returns no byte and
\* marks the port not open; the run of _read_data that met the error gives
\* no byte to the decoder but still schedules one more callback, is_reading
\* being set; that callback, and any other still held, finds the port not
\* open, reads nothing, sets the status to "Waiting for connection..." and
\* schedules nothing.  Open stays disabled: only Close and then Open start
\* a loop again.
C26_StopsAfterOne ==
    /\ [](/\ ReadErrorMet =>
                 /\ portResult = Bytes(None)
                 /\ ~is_open
                 /\ is_reading
                 /\ ~event.read
                 /\ event.scheduled
                 /\ after >= 1
                 /\ status_label = Label("Waiting for data...", <<>>)
          /\ (event.lost /\ event.name = "_read_data") =>
                 /\ ~event.read
                 /\ ~event.scheduled
                 /\ PortLost
                 /\ status_label = Label("Waiting for connection...", <<>>)
          /\ PortLost => (btn_open = "disabled" /\ btn_close = "normal"))
    /\ [][NothingFed]_vars

\* after the read error the last callback held has run
C26_Witness ==
    /\ event.lost
    /\ event.name = "_read_data"
    /\ PortLost
    /\ after = 0
    /\ pos = Len(line)
    /\ line[pos] = Fault
    /\ handles = <<"open">>
    /\ status_label = Label("Waiting for connection...", <<>>)

\* the read error is met by the _read_data that _open_port runs
C26_InOpenReached ==
    /\ ReadErrorMet
    /\ event.name = "_open_port"
    /\ after = 2

\* Close and Open after the read error: bytes are read again
C26_OpenedAgainReached ==
    /\ event.read
    /\ pos > 1
    /\ line[pos - 1] = Fault
    /\ Len(handles) = 2
    /\ is_open /\ is_reading

\* C29: a packet that process_byte returned shares no state with the
\* decoder: no later process_byte or reset call changes it, so the
\* raw_packet of the reading made of it stays equal to the 18 bytes of its
\* frame whatever bytes follow.
C29_PacketUnshared ==
    held.some =>
        /\ ~held.alias
        /\ Len(held.frame) = PACKET_LENGTH
        /\ held.val = held.frame
        /\ parseInput = Some(held.frame)
        /\ parseResult.status = "ok" =>
               parseResult.reading[1].raw_packet = RawPacket("list", held.val)

\* bytes were buffered after a packet was returned, and reset() is called
C29_Witness ==
    /\ held.some
    /\ event.name = "_close_port"
    /\ op = "reset"
    /\ Len(pre.packet) > 0
    /\ packet = <<>>
    /\ parseResult.status = "ok"
    /\ held.val = parseResult.reading[1].raw_packet.items
    /\ held.val = EncodeFields(TestFields)

\* the byte after the one that ended the frame is given to process_byte
C29_NextByteReached ==
    /\ held.some
    /\ event.read
    /\ ~event.emitted
    /\ packet # <<>>
    /\ packet # held.val

\* C31: whatever the order of the clicks on Open and Close and of the
\* timer's firings, at most one _read_data callback is held by root.after at
\* any time: closing the port and opening it again never leaves two read
\* loops that schedule themselves side by side.
C31_OnePending == after <= 1

\* what holds of the callbacks held: each opening of a port adds one read
\* loop, so there are never more than ports were opened, and one alone while
\* the port was opened only once
C31_OnePerOpening == after <= Len(handles)

\* Open, Close and Open before the timer fired: two loops read the port
C31_TwoLoopsReached ==
    /\ after = 2
    /\ is_reading /\ is_open
    /\ event.name = "_open_port"
    /\ handles = <<"closed", "open">>

\* both loops ran and scheduled themselves again
C31_SideBySideReached ==
    /\ after = 2
    /\ is_reading /\ is_open
    /\ event.name = "_read_data"
    /\ event.scheduled
    /\ pos >= 4
    /\ handles = <<"closed", "open">>

\* the callback left by Close ran before Open was clicked again: one loop
C31_OneLoopReached ==
    /\ after = 1
    /\ is_reading /\ is_open
    /\ event.name = "_read_data"
    /\ handles = <<"closed", "open">>

\* no serial.Serial object made so far is still open
AllHandlesClosed == \A i \in 1..Len(handles) : handles[i] = "closed"

\* C32: every path that marks the port not open also closes the serial
\* handle: in every reachable state where is_open is False no serial handle
\* opened earlier is still unclosed, also after a serial read error that is
\* followed by a click on Close.
C32_NoHandleLeft == ~is_open => AllHandlesClosed

\* what holds of the paths that mark the port not open: they are close_port
\* and read_byte, and the one through close_port has closed the handle that
\* ser refers to
MarkedNotOpen ==
    (is_open /\ ~is_open') =>
        /\ portOp'.name \in {"close_port", "read_byte"}
        /\ portOp'.name = "close_port" =>
               /\ portResult' = Pair(TRUE, "Port closed successfully", <<>>)
               /\ handles'[ser'] = "closed"
        /\ portOp'.name = "read_byte" =>
               /\ portOp'.outcome = "SerialException"
               /\ handles'[ser'] = "open"
C32_ClosePathCloses == [][MarkedNotOpen]_vars

\* the read error marked the port not open and left the handle open
C32_LeftOpenReached ==
    /\ ReadErrorMet
    /\ ~is_open
    /\ handles = <<"open">>

\* Close is clicked after the read error: close_port refuses and the handle
\* stays open
C32_AfterCloseReached ==
    /\ event.name = "_close_port"
    /\ portResult = Pair(FALSE, "Port is not open", <<>>)
    /\ status_label = Label("Port is not open", <<>>)
    /\ ~is_open /\ ~is_reading
    /\ ser = 1
    /\ handles = <<"open">>

\* the port is opened again while the first handle was never closed
C32_SecondHandleReached ==
    /\ is_open
    /\ ser = 2
    /\ handles = <<"open", "open">>
    /\ pos > 1
    /\ line[pos - 1] = Fault

\* a click on Close with the port open closes the handle
C32_ClosedReached ==
    /\ event.name = "_close_port"
    /\ portResult = Pair(TRUE, "Port closed successfully", <<>>)
    /\ ~is_open
    /\ AllHandlesClosed
    /\ Len(handles) = 1

====
